---- MODULE Spec2Model ----
(***************************************************************************)
(* Chunked transfer pipeline of the MEGA folder bot: the chunk planner     *)
(* (ChunkManager.organize_files_into_chunks), the progress store           *)
(* (Database) and the orchestrator (MegaBot._process_download with the     *)
(* commands, resume and shutdown around it).                               *)
(*                                                                         *)
(* Sizes are counted in units of 1 GB.                                     *)
(***************************************************************************)
EXTENDS Integers, Sequences, FiniteSets, TLC

\* ---------------------------------------------------------------- bounds
\* Planner inputs: file lists of at most MaxFiles files of size 0..MaxSize,
\* budgets 1..MaxBudget.
MaxFiles == 3
MaxSize == 4
MaxBudget == 4
\* Pipeline: at most MaxRequests download requests are created and the process
\* stops (crash or shutdown) and starts again at most MaxRestarts times.
MaxRequests == 1
MaxRestarts == 2
MaxStoreRequests == 2
MaxRows == 3
MaxChunkNumber == 0
\* download_file on its own: the provider's answers to the first
\* MaxProviderAnswers attempts of one call are drawn at the start.
MaxProviderAnswers == 6
\* upload_file on its own: artifacts of at most MaxParts parts, and at most
\* MaxSubmissions documents handed to the sink in one call.
MaxParts == 3
MaxSubmissions == 5

\* The requests of the check of the concurrency limit.
MaxCapRequests == 3

\* The calls of the store made in the check of its request operations.
MaxCalls == 4

\* The bytes of the short archives given to split_zip_for_telegram and the
\* largest max_size it is called with.
MaxArchive == 5

MaxPartSize == 3

\* The callers of the store in the check of its lock: one command handler
\* and the request tasks.
MaxCallers == 3

\* ------------------------------------------------------ program constants
\* config.chunk_size_bytes: CHUNK_SIZE_GB defaults to 4.
chunk_size_bytes == 4
\* config.max_concurrent_downloads: MAX_CONCURRENT_DOWNLOADS defaults to 2.
max_concurrent_downloads == 2
\* @retry(stop=stop_after_attempt(5), wait=wait_exponential(multiplier=1, min=60, max=600))
stop_attempts == 5
wait_multiplier == 1
wait_min == 60
wait_max == 600
\* config.telegram_file_limit (TELEGRAM_FILE_LIMIT defaults to 2147483648) and
\* the 10 MB margin of _upload_split_file. The uploader's sizes are counted in
\* units of 1 MB (2^20 bytes): the limit is 2048 of them, the margin 10.
max_file_size == 2048
split_margin == 10

VARIABLES
    \* --- the process (volatile: lost when the process stops)
    proc,               \* "up", "stopping" (in shutdown()), "aborting", "down"
    shutdown_iter,      \* shutdown()'s loop over active_downloads.items()
    handler,            \* the command handler in progress: [pc, rid]
    task,               \* per request id: the asyncio task running _process_download
    active_downloads,   \* MegaBot.active_downloads (its keys)
    progress_messages,  \* MegaBot.progress_messages (its keys)
    chunk_managers,     \* MegaBot.chunk_managers (its keys)
    \* --- the progress store (SQLite: survives a stop)
    download_requests,  \* table download_requests, row id = position
    file_progress,      \* table file_progress, row id = position
    chunks_table,       \* table chunks, UNIQUE(request_id, chunk_number)
    \* --- the download folder (survives a stop)
    disk,               \* per request id: what lies in storage_path/request_<id>
    \* --- bookkeeping of the model
    restarts,           \* how often the process has been started again
    stopped_inflight,   \* history: the requests the stop of the process interrupts
    \* --- the planner run on its own
    plan_pc,        \* position in organize_files_into_chunks: start, loop, done
    plan_files,     \* its argument: the list of MegaFile
    plan_budget,    \* self.chunk_size_bytes
    sorted_files,   \* local sorted_files
    plan_pos,       \* index of the next file of sorted_files the for loop takes
    plan_chunks,    \* local chunks
    \* --- one call of MegaDownloader.download_file on its own
    retry_call,     \* the retry loop around the call: attempt, waits slept, outcome
    \* --- one call of TelegramUploader.upload_file on its own
    upload_call,    \* the artifact, its part files, the submissions, the result
    \* --- the calls of Database.create_request, get_request, update_request
    store_call,     \* the last call: operation, arguments, time, what it returned
    \* --- one call of ChunkManager.split_zip_for_telegram on its own
    split_call,     \* the archive, max_size, the files in the folder, the result
    \* --- the operations of the store under Database._lock
    store_lock,     \* the lock, its waiters, the operation each caller is in
    \* --- the request folder under ChunkManager._lock and the worker threads
    folder_call     \* the lock, the task, cmd_cancel, the threads of the executor

plan_vars == <<plan_pc, plan_files, plan_budget, sorted_files, plan_pos, plan_chunks>>

proc_vars == <<proc, shutdown_iter, handler, task, active_downloads, progress_messages, chunk_managers>>

store_vars == <<download_requests, file_progress, chunks_table>>

pipe_vars == <<proc_vars, store_vars, disk, restarts, stopped_inflight>>

unit_vars == <<retry_call, upload_call, store_call, split_call, store_lock, folder_call>>

vars == <<plan_vars, unit_vars, pipe_vars>>

\* ------------------------------------------------------------ helpers
RECURSIVE SumSeq(_)
SumSeq(s) == IF s = <<>> THEN 0 ELSE Head(s) + SumSeq(Tail(s))

Sizes(files) == [i \in 1..Len(files) |-> files[i].size]

Handles(files) == [i \in 1..Len(files) |-> files[i].handle]

\* A MegaFile, reduced to what the pipeline reads: its handle and its size.
MegaFile(h, s) == [handle |-> h, size |-> s]

\* A ChunkInfo as organize_files_into_chunks builds it.
ChunkInfo(n, files, total) == [chunk_number |-> n, files |-> files, total_size |-> total]

\* ------------------------------------------------------------ planner
\* sorted(files, key=size, reverse=True): Python's sort is stable, also with
\* reverse=True, so files of equal size keep their input order.  InsertDesc
\* puts f behind every file already placed whose size is >= f.size.
RECURSIVE InsertDesc(_, _)
InsertDesc(f, s) ==
    IF s = <<>> THEN <<f>>
    ELSE IF Head(s).size >= f.size THEN <<Head(s)>> \o InsertDesc(f, Tail(s))
    ELSE <<f>> \o s

RECURSIVE SortBySizeDesc(_)
SortBySizeDesc(files) ==
    IF files = <<>> THEN <<>>
    ELSE InsertDesc(files[Len(files)], SortBySizeDesc(SubSeq(files, 1, Len(files) - 1)))

\* The test of the inner loop: does file fit into chunk under the budget?
FitsLastOnly(chunks, k, file, budget) ==
    k = Len(chunks) /\ chunks[k].total_size + file.size <= budget

FitsIgnoringFile(chunks, k, file, budget) ==
    chunks[k].total_size <= budget

Fits(chunks, k, file, budget) ==
    chunks[k].total_size + file.size <= budget

\* "for chunk in chunks: if fits: ...; break": the chunk the file goes into,
\* 0 when it was not placed.
LastFit(chunks, file, budget) ==
    LET fitting == {k \in 1..Len(chunks) : Fits(chunks, k, file, budget)}
    IN  IF fitting = {} THEN 0 ELSE CHOOSE k \in fitting : \A j \in fitting : k >= j

FirstFit(chunks, file, budget) ==
    LET fitting == {k \in 1..Len(chunks) : Fits(chunks, k, file, budget)}
    IN  IF fitting = {} THEN 0 ELSE CHOOSE k \in fitting : \A j \in fitting : k <= j

\* chunk.files.append(file); chunk.total_size += file.size
AppendNoTotal(chunk, file) ==
    [chunk EXCEPT !.files = Append(@, file)]

AppendToChunk(chunk, file) ==
    [chunk EXCEPT !.files = Append(@, file), !.total_size = @ + file.size]

\* One iteration of "for file in sorted_files".
PlaceFile(chunks, file, budget) ==
    LET k == FirstFit(chunks, file, budget)
    IN  IF k # 0
        THEN [chunks EXCEPT ![k] = AppendToChunk(@, file)]
        ELSE Append(chunks, ChunkInfo(Len(chunks), <<file>>, file.size))

RECURSIVE PlaceAll(_, _, _)
PlaceAll(chunks, files, budget) ==
    IF files = <<>> THEN chunks
    ELSE PlaceAll(PlaceFile(chunks, Head(files), budget), Tail(files), budget)

\* The whole function, as the orchestrator calls it.
organize_files_into_chunks(files, budget) ==
    PlaceAll(<<>>, SortBySizeDesc(files), budget)

\* Every list of at most n sizes, each file given its input position as handle.
RECURSIVE SizeLists(_)
SizeLists(n) ==
    IF n = 0 THEN {<<>>}
    ELSE LET shorter == SizeLists(n - 1)
         IN  shorter \cup {Append(s, x) : s \in {t \in shorter : Len(t) = n - 1}, x \in 0..MaxSize}

FilesOfSizes(sizes) == [i \in 1..Len(sizes) |-> MegaFile(i, sizes[i])]

\* ------------------------------------------------------ initial values
NoTask ==
    [pc |-> "none", resume |-> FALSE, cancelling |-> FALSE, start_chunk |-> 0,
     plan |-> <<>>, chunk_idx |-> 0, file_idx |-> 0, upload_success |-> FALSE,
     attempted |-> {}, outcomes |-> <<>>, fetched_bytes |-> 0, undelivered |-> {},
     ended |-> "no", raised_at |-> "nowhere", error |-> "", notified |-> FALSE]

IdleHandler == [pc |-> "idle", rid |-> 0]

NoShutdown == [awaiting |-> 0, seen |-> {}, size |-> 0]

\* No call of download_file or upload_file on its own is under way.
NoRetry == [pc |-> "idle", script |-> <<>>, attempt_number |-> 0, waits |-> <<>>,
            errors |-> <<>>, raised |-> "none"]

NoUpload == [pc |-> "idle", exists |-> FALSE, size |-> 0, split |-> FALSE, parts |-> 0,
             on_disk |-> {}, part |-> 0, submissions |-> 0, total |-> 0,
             failed_part |-> 0, result |-> "none"]

\* No call of the store has been recorded.
NoCall == [op |-> "none", now |-> 0, id |-> 0, fields |-> <<>>, got |-> {}, ids |-> {}]

\* No call of split_zip_for_telegram is under way.
NoSplit ==
    [pc |-> "idle", archive |-> <<>>, max_size |-> 0, offset |-> 0, part_num |-> 0,
     folder |-> <<>>, returned |-> <<>>]

\* The store's lock is free and no operation is under way.
NoLock == [locked |-> FALSE, waiters |-> <<>>, ops |-> <<>>, half_done |-> {}]

\* No request folder is being worked on.
NoFolderCall == [pc |-> "idle"]

UnitsIdle ==
    /\ retry_call = NoRetry /\ upload_call = NoUpload
    /\ store_call = NoCall /\ split_call = NoSplit
    /\ store_lock = NoLock /\ folder_call = NoFolderCall

\* MegaBot.__init__ and initialize() on an empty database: nothing to resume.
PipeInit ==
    /\ proc = "up"
    /\ shutdown_iter = NoShutdown
    /\ handler = IdleHandler
    /\ task = [r \in 1..MaxRequests |-> NoTask]
    /\ active_downloads = {}
    /\ progress_messages = {}
    /\ chunk_managers = {}
    /\ download_requests = <<>>
    /\ file_progress = <<>>
    /\ chunks_table = {}
    /\ disk = [r \in 1..MaxRequests |-> {}]
    /\ restarts = 0
    /\ stopped_inflight = {}

PlanInit ==
    /\ PipeInit
    /\ UnitsIdle
    /\ plan_pc = "start"
    /\ plan_files \in {FilesOfSizes(s) : s \in SizeLists(MaxFiles)}
    /\ plan_budget \in 1..MaxBudget
    /\ sorted_files = <<>>
    /\ plan_pos = 1
    /\ plan_chunks = <<>>

\* sorted_files = sorted(...); chunks = []
PlanSort ==
    /\ plan_pc = "start"
    /\ sorted_files' = SortBySizeDesc(plan_files)
    /\ plan_chunks' = <<>>
    /\ plan_pos' = 1
    /\ plan_pc' = "loop"
    /\ UNCHANGED <<plan_files, plan_budget, pipe_vars, unit_vars>>

\* One pass of the for loop over sorted_files.
PlanPlace ==
    /\ plan_pc = "loop"
    /\ plan_pos <= Len(sorted_files)
    /\ plan_chunks' = PlaceFile(plan_chunks, sorted_files[plan_pos], plan_budget)
    /\ plan_pos' = plan_pos + 1
    /\ UNCHANGED <<plan_pc, plan_files, plan_budget, sorted_files, pipe_vars, unit_vars>>

\* self.chunks = chunks; return chunks
PlanReturn ==
    /\ plan_pc = "loop"
    /\ plan_pos > Len(sorted_files)
    /\ plan_pc' = "done"
    /\ UNCHANGED <<plan_files, plan_budget, sorted_files, plan_pos, plan_chunks, pipe_vars, unit_vars>>

PlanNext == PlanSort \/ PlanPlace \/ PlanReturn

SpecPlan == PlanInit /\ [][PlanNext]_vars

\* ------------------------------------------------- planner properties
PlanDone == plan_pc = "done"

Oversized(c) == Len(c.files) = 1 /\ c.files[1].size > plan_budget

\* The places (chunk, position) of the result that hold the file with handle h.
PlacesOf(h) ==
    {<<k, j>> \in (1..Len(plan_chunks)) \X (1..MaxFiles + 1) :
        j <= Len(plan_chunks[k].files) /\ plan_chunks[k].files[j].handle = h}

\* Position of the file with handle h in sorted_files.
SortedPos(h) == CHOOSE p \in 1..Len(sorted_files) : sorted_files[p].handle = h

\* C1: every chunk the planner builds has total_size <= budget, unless it
\* holds exactly one file and that file alone is larger than the budget.
C1_ChunkWithinBudget ==
    \A k \in 1..Len(plan_chunks) :
        plan_chunks[k].total_size <= plan_budget \/ Oversized(plan_chunks[k])

\* A finished plan with an oversized singleton chunk beside a chunk of two
\* files filled exactly to the budget.
C1_Witness ==
    /\ PlanDone
    /\ \E k \in 1..Len(plan_chunks) : Oversized(plan_chunks[k])
    /\ \E k \in 1..Len(plan_chunks) :
          Len(plan_chunks[k].files) = 2 /\ plan_chunks[k].total_size = plan_budget

\* C2: the finished plan holds every input file at exactly one place, holds
\* nothing else, and each chunk's total_size is the sum of its files' sizes.
C2_ExactCover ==
    PlanDone =>
        /\ \A i \in 1..Len(plan_files) : Cardinality(PlacesOf(plan_files[i].handle)) = 1
        /\ \A k \in 1..Len(plan_chunks) :
              /\ \A j \in 1..Len(plan_chunks[k].files) :
                    \E i \in 1..Len(plan_files) : plan_chunks[k].files[j] = plan_files[i]
              /\ plan_chunks[k].total_size = SumSeq(Sizes(plan_chunks[k].files))

\* A finished plan of three files, two of them of equal size, in two chunks.
C2_Witness ==
    /\ PlanDone
    /\ Len(plan_files) = 3
    /\ plan_files[1].size = plan_files[3].size
    /\ Len(plan_chunks) = 2

PlanSizes == [k \in 1..Len(plan_chunks) |-> Sizes(plan_chunks[k].files)]

Scenario321 == PlanDone /\ Sizes(plan_files) = <<3, 2, 1>> /\ plan_budget = 4

\* C3 as stated: sizes 3, 2, 1 under a budget of 4 give the chunks [3] and [2, 1].
C3_AsStated == Scenario321 => PlanSizes = << <<3>>, <<2, 1>> >>

\* C3 (amended): sizes 3, 2, 1 under a budget of 4 give exactly two chunks,
\* the first holding the 3 GB and the 1 GB file (3 + 1 <= 4: the 1 GB file
\* fits the first open chunk), the second holding only the 2 GB file.
C3_Scenario == Scenario321 => PlanSizes = << <<3, 1>>, <<2>> >>

C3_Witness == Scenario321

\* C4: first-fit decreasing.  sorted_files is the input in non-increasing size
\* order; every placed file sits in the lowest-indexed chunk that had room for
\* it when its turn came (in each lower chunk, the files placed before it plus
\* the file itself exceed the budget), so a chunk was opened only when no open
\* chunk fitted; and the chunk at position i (from 0) has chunk_number i.
C4_FirstFitDecreasing ==
    /\ plan_pc # "start" =>
          /\ Len(sorted_files) = Len(plan_files)
          /\ \A i \in 1..Len(plan_files) : \E p \in 1..Len(sorted_files) : sorted_files[p] = plan_files[i]
          /\ \A p \in 1..Len(sorted_files) - 1 : sorted_files[p].size >= sorted_files[p + 1].size
    /\ \A k \in 1..Len(plan_chunks) :
          /\ plan_chunks[k].chunk_number = k - 1
          /\ \A j \in 1..Len(plan_chunks[k].files) :
                LET f == plan_chunks[k].files[j]
                IN  /\ SortedPos(f.handle) < plan_pos
                    /\ j > 1 => SortedPos(plan_chunks[k].files[j - 1].handle) < SortedPos(f.handle)
                    /\ j > 1 => SumSeq(Sizes(SubSeq(plan_chunks[k].files, 1, j))) <= plan_budget
                    /\ \A l \in 1..k - 1 :
                          LET before == {i \in 1..Len(plan_chunks[l].files) :
                                            SortedPos(plan_chunks[l].files[i].handle) < SortedPos(f.handle)}
                          IN  SumSeq([i \in 1..Cardinality(before) |-> plan_chunks[l].files[i].size])
                                + f.size > plan_budget

\* A finished plan in which a file went back into the first chunk after a
\* second chunk had been opened.
C4_Witness ==
    /\ PlanDone
    /\ Len(plan_chunks) >= 2
    /\ \E j \in 1..Len(plan_chunks[1].files) :
          SortedPos(plan_chunks[1].files[j].handle) > SortedPos(plan_chunks[2].files[1].handle)

\* ===================================================== the progress store
\* DownloadStatus: the enumeration has these six values and no other.
DownloadStatus == {"pending", "downloading", "uploading", "completed", "failed", "paused"}

\* The folder the provider lists for the link: get_folder_info returns the same
\* files (handle, size) each time it is asked.
FolderFiles == FilesOfSizes(<<3, 1, 2>>)

\* create_request: the inserted row; the counters take the column defaults.
NewRequest ==
    [status |-> "pending", current_chunk |-> 0, total_chunks |-> 0, total_files |-> 0,
     total_size |-> 0, downloaded_bytes |-> 0, error_message |-> ""]

\* add_files: one inserted row; downloaded_bytes and chunk_number take the
\* column defaults.
NewFileRow(rid, f) ==
    [request_id |-> rid, mega_handle |-> f.handle, file_size |-> f.size,
     downloaded_bytes |-> 0, chunk_number |-> 0, status |-> "pending"]

\* add_files(request_id, files)
add_files(rows, rid, files) ==
    rows \o [i \in 1..Len(files) |-> NewFileRow(rid, files[i])]

\* get_pending_files(request_id): the ids of the rows
\* WHERE request_id = ? AND status = 'pending'.
get_pending_files(rows, rid) ==
    {i \in 1..Len(rows) : rows[i].request_id = rid /\ rows[i].status = "pending"}

\* "for pf in pending_files: if pf.mega_handle == handle: ... break": the id
\* of the first pending row with that handle in the order of the query
\* (ORDER BY file_size ASC, rows of one size in id order), 0 when there is none.
PendingIdOf(rows, rid, handle) ==
    LET hit == {i \in get_pending_files(rows, rid) : rows[i].mega_handle = handle}
        Before(i, j) == \/ rows[i].file_size < rows[j].file_size
                        \/ rows[i].file_size = rows[j].file_size /\ i <= j
    IN  IF hit = {} THEN 0 ELSE CHOOSE i \in hit : \A j \in hit : Before(i, j)

update_file_progress_all(rows, file_id, status, bytes) ==
    [i \in 1..Len(rows) |-> [rows[i] EXCEPT !.status = status, !.downloaded_bytes = bytes]]

\* update_file_progress(file_id, status=..., downloaded_bytes=...):
\* UPDATE file_progress SET ... WHERE id = ?
update_file_progress(rows, file_id, status, bytes) ==
    [rows EXCEPT ![file_id] = [@ EXCEPT !.status = status, !.downloaded_bytes = bytes]]

\* assign_files_to_chunk, first statement:
\* UPDATE file_progress SET chunk_number = ? WHERE id IN (...)
AssignFiles(rows, file_ids, n) ==
    [i \in 1..Len(rows) |-> IF i \in file_ids THEN [rows[i] EXCEPT !.chunk_number = n] ELSE rows[i]]

InsertChunkOrReplace(table, rid, n) ==
    {c \in table : ~ (c.request_id = rid /\ c.chunk_number = n)}
        \cup {[request_id |-> rid, chunk_number |-> n, status |-> "pending", zip_path |-> FALSE]}

\* assign_files_to_chunk, second statement: INSERT OR IGNORE INTO chunks.
InsertChunkOrIgnore(table, rid, n) ==
    IF \E c \in table : c.request_id = rid /\ c.chunk_number = n
    THEN table
    ELSE table \cup {[request_id |-> rid, chunk_number |-> n, status |-> "pending", zip_path |-> FALSE]}

\* update_chunk_status(request_id, chunk_number, status, zip_path): the UPDATE
\* touches the row of that chunk, if there is one; zip_path is set when given.
update_chunk_status(table, rid, n, status, zip) ==
    {IF c.request_id = rid /\ c.chunk_number = n
     THEN [c EXCEPT !.status = status, !.zip_path = IF zip THEN TRUE ELSE @]
     ELSE c : c \in table}

WhereAnyRequest(row, rid) == TRUE

\* The WHERE request_id = ? of both queries of get_download_stats.
WhereRequest(row, rid) == row.request_id = rid

\* SUM(...) and COUNT(*) of get_download_stats over the rows the WHERE keeps.
RECURSIVE FileAggregate(_, _)
FileAggregate(rows, rid) ==
    IF rows = <<>>
    THEN [total_files |-> 0, total_size |-> 0, downloaded_bytes |-> 0, completed_files |-> 0]
    ELSE LET rest == FileAggregate(Tail(rows), rid)
             row == Head(rows)
         IN  IF ~ WhereRequest(row, rid) THEN rest
             ELSE [total_files |-> rest.total_files + 1,
                   total_size |-> rest.total_size + row.file_size,
                   downloaded_bytes |-> rest.downloaded_bytes + row.downloaded_bytes,
                   completed_files |-> rest.completed_files
                                        + (IF row.status = "completed" THEN 1 ELSE 0)]

\* get_download_stats(request_id)
get_download_stats(rows, table, rid) ==
    LET f == FileAggregate(rows, rid)
        mine == {c \in table : WhereRequest(c, rid)}
    IN  [total_files |-> f.total_files, total_size |-> f.total_size,
         downloaded_bytes |-> f.downloaded_bytes, completed_files |-> f.completed_files,
         total_chunks |-> Cardinality(mine),
         completed_chunks |-> Cardinality({c \in mine : c.status = "completed"})]

\* get_active_requests(): WHERE status NOT IN ('completed', 'failed')
get_active_requests(reqs) ==
    {r \in 1..Len(reqs) : reqs[r].status \notin {"completed", "failed"}}

\* ======================================================= the download folder
\* What can lie in the folder of a request: the directory of a chunk, a file
\* fetched into it, the archive of a chunk, part files the uploader wrote for
\* the archive.
ChunkDir(i) == [kind |-> "dir", chunk |-> i, handle |-> 0]

ChunkFile(i, h) == [kind |-> "file", chunk |-> i, handle |-> h]

ChunkZip(i) == [kind |-> "zip", chunk |-> i, handle |-> 0]

ZipParts(i) == [kind |-> "parts", chunk |-> i, handle |-> 0]

\* cleanup_chunk: rmtree of chunk_<i>, removal of chunk_<i>.zip and of the
\* files matching chunk_<i>.zip.part* (the uploader names its parts
\* chunk_<i>.partNNN, which the pattern does not match).
cleanup_chunk(d, rid, i) ==
    [d EXCEPT ![rid] = {a \in @ : a.chunk # i \/ a.kind = "parts"}]

\* cleanup_all: rmtree of the request folder.
cleanup_all(d, rid) == [d EXCEPT ![rid] = {}]

\* The total size of a set of files.
RECURSIVE SumSet(_)
SumSet(S) == IF S = {} THEN 0 ELSE LET x == CHOOSE y \in S : TRUE IN x.size + SumSet(S \ {x})

\* file_size > self.max_file_size for an archive: its size is in units of
\* 1 GB = 1024 MB, the limit in units of 1 MB. The archive is taken to be as
\* large as the files it holds.
ArchiveTooLarge(size) == size * 1024 > max_file_size

\* ============================================================ the pipeline
\* The pipeline is checked with the planner idle.
PlannerIdle ==
    /\ plan_pc = "idle"
    /\ plan_files = <<>>
    /\ plan_budget = chunk_size_bytes
    /\ sorted_files = <<>>
    /\ plan_pos = 0
    /\ plan_chunks = <<>>

Init == PipeInit /\ PlannerIdle /\ UnitsIdle

\* -(-total_size // chunk_size_bytes)
CeilDiv(a, b) == (a + b - 1) \div b

Max(a, b) == IF a >= b THEN a ELSE b

\* db.update_request(request_id, status=...)
SetStatus(reqs, rid, status) == [reqs EXCEPT ![rid].status = status]

\* db.update_request(request_id, status=FAILED, error_message=...)
SetFailed(reqs, rid, msg) == [reqs EXCEPT ![rid].status = "failed", ![rid].error_message = msg]

\* The finally block of _process_download.
Forget(rid) ==
    /\ active_downloads' = active_downloads \ {rid}
    /\ progress_messages' = progress_messages \ {rid}
    /\ chunk_managers' = chunk_managers \ {rid}

\* Update handlers are dispatched while the application runs, one at a time.
HandlerReady == proc \in {"up", "stopping"} /\ handler.pc = "idle"

\* _start_download up to create_request: the link is valid, the concurrency
\* check passes, the folder is listed and is not empty, the row is inserted.
StartDownload_Create ==
    /\ HandlerReady
    /\ Len(download_requests) < MaxRequests
    /\ ~ (Cardinality(active_downloads) >= max_concurrent_downloads)
    /\ download_requests' = Append(download_requests, NewRequest)
    /\ handler' = [pc |-> "totals", rid |-> Len(download_requests) + 1]
    /\ UNCHANGED <<plan_vars, unit_vars, disk, proc, shutdown_iter, task, active_downloads, progress_messages,
                   chunk_managers, file_progress, chunks_table, restarts, stopped_inflight>>

\* update_request(total_files, total_size, total_chunks=chunk_count)
StartDownload_Totals ==
    /\ proc \in {"up", "stopping"}
    /\ handler.pc = "totals"
    /\ download_requests' =
         [download_requests EXCEPT
            ![handler.rid].total_files = Len(FolderFiles),
            ![handler.rid].total_size = SumSeq(Sizes(FolderFiles)),
            ![handler.rid].total_chunks =
                Max(1, CeilDiv(SumSeq(Sizes(FolderFiles)), chunk_size_bytes))]
    /\ handler' = [handler EXCEPT !.pc = "add_files"]
    /\ UNCHANGED <<plan_vars, unit_vars, disk, proc, shutdown_iter, task, active_downloads, progress_messages,
                   chunk_managers, file_progress, chunks_table, restarts, stopped_inflight>>

\* db.add_files(request_id, files_data)
StartDownload_AddFiles ==
    /\ proc \in {"up", "stopping"}
    /\ handler.pc = "add_files"
    /\ file_progress' = add_files(file_progress, handler.rid, FolderFiles)
    /\ handler' = [handler EXCEPT !.pc = "create_task"]
    /\ UNCHANGED <<plan_vars, unit_vars, disk, proc, shutdown_iter, task, active_downloads, progress_messages,
                   chunk_managers, download_requests, chunks_table, restarts, stopped_inflight>>

\* After edit_text: the progress message is remembered and the task created.
StartDownload_CreateTask ==
    /\ proc \in {"up", "stopping"}
    /\ handler.pc = "create_task"
    /\ progress_messages' = progress_messages \cup {handler.rid}
    /\ active_downloads' = active_downloads \cup {handler.rid}
    /\ task' = [task EXCEPT ![handler.rid] = [NoTask EXCEPT !.pc = "created"]]
    /\ handler' = IdleHandler
    /\ UNCHANGED <<plan_vars, unit_vars, disk, proc, shutdown_iter, chunk_managers, store_vars, restarts,
                   stopped_inflight>>

\* task.cancel(): a task that has not finished is marked; the CancelledError
\* is raised in it when it next runs.
CancelTask(t) == IF t.pc = "none" THEN t ELSE [t EXCEPT !.cancelling = TRUE]

\* cmd_cancel, from the ownership check to the FAILED write.
Cancel_Begin ==
    /\ HandlerReady
    /\ \E rid \in 1..Len(download_requests) :
         /\ IF rid \in active_downloads
            THEN /\ task' = [task EXCEPT ![rid] = CancelTask(@)]
                 /\ active_downloads' = active_downloads \ {rid}
            ELSE UNCHANGED <<task, active_downloads>>
         /\ download_requests' = SetFailed(download_requests, rid, "Cancelled by user")
         /\ handler' = [pc |-> "cancel_cleanup", rid |-> rid]
         /\ stopped_inflight' = stopped_inflight \ {rid}
    /\ UNCHANGED <<plan_vars, unit_vars, disk, proc, shutdown_iter, progress_messages, chunk_managers,
                   file_progress, chunks_table, restarts>>

\* cmd_cancel: cleanup_all and del chunk_managers[request_id], then the reply.
Cancel_Cleanup ==
    /\ proc \in {"up", "stopping"}
    /\ handler.pc = "cancel_cleanup"
    /\ chunk_managers' = chunk_managers \ {handler.rid}
    /\ disk' = IF handler.rid \in chunk_managers
               THEN cleanup_all(disk, handler.rid) ELSE disk
    /\ handler' = IdleHandler
    /\ UNCHANGED <<plan_vars, unit_vars, proc, shutdown_iter, task, active_downloads, progress_messages,
                   store_vars, restarts, stopped_inflight>>

\* ------------------------------------------------------ _process_download
\* The task of request r runs a step when the event loop runs and no
\* CancelledError is waiting for it.
Running(r) == proc # "down" /\ task[r].pc # "none" /\ ~ task[r].cancelling

TaskUnchanged == UNCHANGED <<plan_vars, unit_vars, disk, proc, shutdown_iter, handler, restarts, stopped_inflight>>

\* The same for a step that writes to the download folder.
TaskWrites == UNCHANGED <<plan_vars, unit_vars, proc, shutdown_iter, handler, restarts, stopped_inflight>>

\* The task of request r ends by itself: r is no longer one of the requests
\* the stop of the process interrupts.
TaskEnds(r) ==
    /\ stopped_inflight' = stopped_inflight \ {r}
    /\ UNCHANGED <<plan_vars, unit_vars, proc, shutdown_iter, handler, restarts>>

\* request = await db.get_request(request_id); the row is read once, so
\* start_chunk is the current_chunk persisted when the task started.
T_GetRequest(r) ==
    /\ Running(r) /\ task[r].pc = "created"
    /\ task' = [task EXCEPT ![r].pc = "begin",
                            ![r].start_chunk = IF task[r].resume
                                               THEN download_requests[r].current_chunk ELSE 0]
    /\ TaskUnchanged
    /\ UNCHANGED <<active_downloads, progress_messages, chunk_managers, store_vars>>

\* update_request(status=DOWNLOADING); the chunk manager is registered.
T_SetDownloading(r) ==
    /\ Running(r) /\ task[r].pc = "begin"
    /\ download_requests' = SetStatus(download_requests, r, "downloading")
    /\ chunk_managers' = chunk_managers \cup {r}
    /\ task' = [task EXCEPT ![r].pc = "folder"]
    /\ TaskUnchanged
    /\ UNCHANGED <<active_downloads, progress_messages, file_progress, chunks_table>>

\* get_folder_info returns and the files are organized into chunks.
T_Plan(r) ==
    /\ Running(r) /\ task[r].pc = "folder"
    /\ task' = [task EXCEPT ![r].pc = "assign",
                            ![r].plan = organize_files_into_chunks(FolderFiles, chunk_size_bytes),
                            ![r].chunk_idx = 0]
    /\ TaskUnchanged
    /\ UNCHANGED <<active_downloads, progress_messages, chunk_managers, store_vars>>

\* get_folder_info raises MegaDownloadError(f"Failed to get folder info:
\* {e}"): "except Exception as e" is entered and awaits update_request.
T_Exception(r) ==
    /\ Running(r) /\ task[r].pc = "folder"
    /\ task' = [task EXCEPT ![r].pc = "except", ![r].raised_at = "get_folder_info",
                            ![r].error = "Failed to get folder info"]
    /\ TaskUnchanged
    /\ UNCHANGED <<active_downloads, progress_messages, chunk_managers, store_vars>>

\* The ids save_chunk_assignments collects for one chunk: for each file of
\* the chunk, the pending row with its handle, if any.
ChunkFileIds(rows, rid, chunk) ==
    {PendingIdOf(rows, rid, chunk.files[i].handle) : i \in 1..Len(chunk.files)} \ {0}

\* save_chunk_assignments, one chunk of the loop.
T_Assign(r) ==
    /\ Running(r) /\ task[r].pc = "assign"
    /\ task[r].chunk_idx < Len(task[r].plan)
    /\ LET chunk == task[r].plan[task[r].chunk_idx + 1]
           file_ids == ChunkFileIds(file_progress, r, chunk)
       IN  IF file_ids # {}
           THEN /\ file_progress' = AssignFiles(file_progress, file_ids, chunk.chunk_number)
                /\ chunks_table' = InsertChunkOrIgnore(chunks_table, r, chunk.chunk_number)
           ELSE UNCHANGED <<file_progress, chunks_table>>
    /\ task' = [task EXCEPT ![r].chunk_idx = @ + 1]
    /\ TaskUnchanged
    /\ UNCHANGED <<active_downloads, progress_messages, chunk_managers, download_requests>>

\* update_request(total_chunks=len(chunks)); the chunk loop starts at start_chunk.
T_TotalChunks(r) ==
    /\ Running(r) /\ task[r].pc = "assign"
    /\ task[r].chunk_idx = Len(task[r].plan)
    /\ download_requests' = [download_requests EXCEPT ![r].total_chunks = Len(task[r].plan)]
    /\ task' = [task EXCEPT ![r].pc = "chunk", ![r].chunk_idx = task[r].start_chunk]
    /\ TaskUnchanged
    /\ UNCHANGED <<active_downloads, progress_messages, chunk_managers, file_progress, chunks_table>>

SkipCurrentChunk(reqs, rid, i) == reqs

\* db.update_request(request_id, current_chunk=chunk_idx)
SetCurrentChunk(reqs, rid, i) == [reqs EXCEPT ![rid].current_chunk = i]

\* for chunk_idx in range(start_chunk, len(chunks)): update_request(current_chunk)
T_ChunkStart(r) ==
    /\ Running(r) /\ task[r].pc = "chunk"
    /\ task[r].chunk_idx < Len(task[r].plan)
    /\ download_requests' = SetCurrentChunk(download_requests, r, task[r].chunk_idx)
    /\ disk' = [disk EXCEPT ![r] = @ \cup {ChunkDir(task[r].chunk_idx)}]
    /\ task' = [task EXCEPT ![r].pc = "download", ![r].file_idx = 0, ![r].outcomes = <<>>]
    /\ TaskWrites
    /\ UNCHANGED <<active_downloads, progress_messages, chunk_managers, file_progress, chunks_table>>

\* The file the inner loop is at.
CurrentFile(t) == t.plan[t.chunk_idx + 1].files[t.file_idx + 1]

InFileLoop(t) == t.pc = "download" /\ t.file_idx < Len(t.plan[t.chunk_idx + 1].files)

\* The decorator is built without reraise=True: when the attempts are used
\* up it raises tenacity.RetryError, which wraps the last attempt.
RaisedAtStop(exc) == "RetryError"

\* The file of the current attempt lies in the chunk directory.
Fetched(d, r, t) ==
    [d EXCEPT ![r] = @ \cup {ChunkFile(t.chunk_idx, CurrentFile(t).handle)}]

BreakLoop(t) == [t EXCEPT !.file_idx = Len(t.plan[t.chunk_idx + 1].files)]

\* "except Exception: ... continue": the loop goes on with the next file.
ContinueLoop(t) == [t EXCEPT !.file_idx = @ + 1]

\* await mega_downloader.download_file(...) returns and the loop body goes on
\* (bot.py:684-690). With the callback the bot passes (sync_progress calls
\* asyncio.create_task on the executor thread, where no event loop runs) the
\* call raises after the fetch and takes the step T_CallbackRaises; the
\* returning step is kept as the one every FileEntry write of the pipeline
\* depends on. update_progress, the only writer of the request's
\* downloaded_bytes, is created by sync_progress and never runs, so no step
\* writes that column.
T_DownloadReturns(r) ==
    /\ Running(r) /\ InFileLoop(task[r])
    /\ disk' = Fetched(disk, r, task[r])
    /\ task' = [task EXCEPT ![r].pc = "mark",
                            ![r].outcomes = Append(@, "returned"),
                            ![r].fetched_bytes = @ + CurrentFile(task[r]).size]
    /\ TaskWrites
    /\ UNCHANGED <<active_downloads, progress_messages, chunk_managers, store_vars>>

\* The fetch works and _download_file_sync reports it: progress_callback is
\* sync_progress, asyncio.create_task raises RuntimeError in the executor
\* thread, download_file turns it into MegaDownloadError (the message has none
\* of the quota words), and the loop continues with the next file.
T_CallbackRaises(r) ==
    /\ Running(r) /\ InFileLoop(task[r])
    /\ disk' = Fetched(disk, r, task[r])
    /\ task' = [task EXCEPT ![r] = [ContinueLoop(@) EXCEPT
                            !.outcomes = Append(@, "fetched_then_raised"),
                            !.fetched_bytes = @ + CurrentFile(task[r]).size]]
    /\ TaskWrites
    /\ UNCHANGED <<active_downloads, progress_messages, chunk_managers, store_vars>>

\* The fetch fails with an error that is not a quota error: download_file
\* raises MegaDownloadError, "except Exception: continue".
T_DownloadFails(r) ==
    /\ Running(r) /\ InFileLoop(task[r])
    /\ task' = [task EXCEPT ![r] = [ContinueLoop(@) EXCEPT
                            !.outcomes = Append(@, "MegaDownloadError")]]
    /\ TaskUnchanged
    /\ UNCHANGED <<active_downloads, progress_messages, chunk_managers, store_vars>>

\* Every attempt of download_file meets the quota error: the decorator raises
\* RaisedAtStop, which is not MegaQuotaExceededError, so "except
\* MegaQuotaExceededError" is passed over and "except Exception: continue"
\* takes it.
T_RetriesUsedUp(r) ==
    /\ Running(r) /\ InFileLoop(task[r])
    /\ RaisedAtStop("MegaQuotaExceededError") # "MegaQuotaExceededError"
    /\ task' = [task EXCEPT ![r] = [ContinueLoop(@) EXCEPT
                            !.outcomes = Append(@, RaisedAtStop("MegaQuotaExceededError"))]]
    /\ TaskUnchanged
    /\ UNCHANGED <<active_downloads, progress_messages, chunk_managers, store_vars>>

\* The pending row with the file's handle is marked completed with
\* downloaded_bytes = file_info.size.
T_MarkCompleted(r) ==
    /\ Running(r) /\ task[r].pc = "mark"
    /\ LET f == CurrentFile(task[r])
           id == PendingIdOf(file_progress, r, f.handle)
       IN  file_progress' = IF id = 0 THEN file_progress
                            ELSE update_file_progress(file_progress, id, "completed", f.size)
    /\ task' = [task EXCEPT ![r].pc = "download", ![r].file_idx = @ + 1]
    /\ TaskUnchanged
    /\ UNCHANGED <<active_downloads, progress_messages, chunk_managers, download_requests, chunks_table>>

\* create_chunk_zip: the archive is written and the chunk row set to zipped.
T_Zip(r) ==
    /\ Running(r) /\ task[r].pc = "download" /\ ~ InFileLoop(task[r])
    /\ ChunkDir(task[r].chunk_idx) \in disk[r]
    /\ chunks_table' = update_chunk_status(chunks_table, r, task[r].chunk_idx, "zipped", TRUE)
    /\ disk' = [disk EXCEPT ![r] = @ \cup {ChunkZip(task[r].chunk_idx)}]
    /\ task' = [task EXCEPT ![r].pc = "set_uploading"]
    /\ TaskWrites
    /\ UNCHANGED <<active_downloads, progress_messages, chunk_managers, download_requests, file_progress>>

\* update_request(status=UPLOADING)
T_SetUploading(r) ==
    /\ Running(r) /\ task[r].pc = "set_uploading"
    /\ download_requests' = SetStatus(download_requests, r, "uploading")
    /\ task' = [task EXCEPT ![r].pc = "upload"]
    /\ TaskUnchanged
    /\ UNCHANGED <<active_downloads, progress_messages, chunk_managers, file_progress, chunks_table>>

\* What upload_file leaves in the folder: an archive above the limit is
\* split into part files; the parts delivered are removed, so none is left
\* after a success; after a failure the part that failed and the later ones
\* stay (left), unless the failure was an exception, whose handler removes
\* the parts.
UploadLeaves(artifacts, t, ok, left) ==
    IF ArchiveTooLarge(SumSet({t.plan[t.chunk_idx + 1].files[k] :
                                 k \in {j \in 1..Len(t.plan[t.chunk_idx + 1].files) :
                                    ChunkFile(t.chunk_idx, t.plan[t.chunk_idx + 1].files[j].handle)
                                        \in artifacts}}))
    THEN IF ok THEN artifacts \ {ZipParts(t.chunk_idx)}
         ELSE IF left THEN artifacts \cup {ZipParts(t.chunk_idx)} ELSE artifacts
    ELSE artifacts

\* upload_success = await self.uploader.upload_chunk(...)
T_Upload(r) ==
    /\ Running(r) /\ task[r].pc = "upload"
    /\ \E ok, left \in BOOLEAN :
         /\ task' = [task EXCEPT ![r].pc = "after_upload", ![r].upload_success = ok,
                                 ![r].attempted = @ \cup {task[r].chunk_idx},
                                 ![r].undelivered = IF ok THEN @ ELSE @ \cup {task[r].chunk_idx}]
         /\ disk' = [disk EXCEPT ![r] = UploadLeaves(@, task[r], ok, left)]
    /\ TaskWrites
    /\ UNCHANGED <<active_downloads, progress_messages, chunk_managers, store_vars>>

\* if upload_success: mark_chunk_complete and cleanup_chunk.
T_AfterUpload(r) ==
    /\ Running(r) /\ task[r].pc = "after_upload"
    /\ chunks_table' = IF task[r].upload_success
                       THEN update_chunk_status(chunks_table, r, task[r].chunk_idx, "completed", FALSE)
                       ELSE chunks_table
    /\ disk' = IF task[r].upload_success THEN cleanup_chunk(disk, r, task[r].chunk_idx) ELSE disk
    /\ task' = [task EXCEPT ![r].pc = "next"]
    /\ TaskWrites
    /\ UNCHANGED <<active_downloads, progress_messages, chunk_managers, download_requests, file_progress>>

MoreChunksAlways(chunk_idx, n) == chunk_idx <= n - 1

\* if chunk_idx < len(chunks) - 1
MoreChunks(chunk_idx, n) == chunk_idx < n - 1

\* The end of the chunk loop body: back to DOWNLOADING unless the chunk was
\* the last one.
T_NextChunk(r) ==
    /\ Running(r) /\ task[r].pc = "next"
    /\ download_requests' = IF MoreChunks(task[r].chunk_idx, Len(task[r].plan))
                            THEN SetStatus(download_requests, r, "downloading")
                            ELSE download_requests
    /\ task' = [task EXCEPT ![r].pc = "chunk", ![r].chunk_idx = @ + 1]
    /\ TaskUnchanged
    /\ UNCHANGED <<active_downloads, progress_messages, chunk_managers, file_progress, chunks_table>>

\* After the loop: update_request(status=COMPLETED)
T_Complete(r) ==
    /\ Running(r) /\ task[r].pc = "chunk"
    /\ ~ (task[r].chunk_idx < Len(task[r].plan))
    /\ download_requests' = SetStatus(download_requests, r, "completed")
    /\ task' = [task EXCEPT ![r].pc = "final"]
    /\ TaskUnchanged
    /\ UNCHANGED <<active_downloads, progress_messages, chunk_managers, file_progress, chunks_table>>

\* cleanup_all, the completion message, then the finally block.
T_Final(r) ==
    /\ Running(r) /\ task[r].pc = "final"
    /\ disk' = cleanup_all(disk, r)
    /\ Forget(r)
    /\ task' = [task EXCEPT ![r] = [NoTask EXCEPT !.ended = "returned"]]
    /\ TaskEnds(r)
    /\ UNCHANGED store_vars

\* The steps of _process_download outside the file loop whose await is an
\* operation of the store: get_request, update_request, save_chunk_assignments,
\* update_chunk_status (in create_chunk_zip and mark_chunk_complete),
\* get_download_stats.
StoreAwaits ==
    {"created", "begin", "assign", "chunk", "download", "set_uploading", "after_upload",
     "next", "final"}

\* The folder when the store operation of the step raises: create_chunk_zip
\* has written the archive before update_chunk_status, and cleanup_all has
\* run before get_download_stats.
FolderAtStoreError(d, r, t) ==
    IF t.pc = "download" THEN [d EXCEPT ![r] = @ \cup {ChunkZip(t.chunk_idx)}]
    ELSE IF t.pc = "final" THEN cleanup_all(d, r)
    ELSE d

\* An operation of the store raises outside the file loop: "except
\* Exception as e" is entered and awaits update_request.
T_StoreFails(r) ==
    /\ Running(r) /\ task[r].pc \in StoreAwaits /\ ~ InFileLoop(task[r])
    /\ task[r].pc = "download" => ChunkDir(task[r].chunk_idx) \in disk[r]
    /\ task[r].pc = "after_upload" => task[r].upload_success
    /\ task[r].pc = "next" => MoreChunks(task[r].chunk_idx, Len(task[r].plan))
    /\ disk' = FolderAtStoreError(disk, r, task[r])
    /\ task' = [task EXCEPT ![r].pc = "except", ![r].raised_at = "store",
                            ![r].error = "store error"]
    /\ TaskWrites
    /\ UNCHANGED <<active_downloads, progress_messages, chunk_managers, store_vars>>

\* create_zip raises while it writes the archive (OSError, for example no
\* space left on the device): what it wrote of the archive stays, "except
\* Exception as e" is entered.
T_ZipFails(r) ==
    /\ Running(r) /\ task[r].pc = "download" /\ ~ InFileLoop(task[r])
    /\ ChunkDir(task[r].chunk_idx) \in disk[r]
    /\ disk' = [disk EXCEPT ![r] = @ \cup {ChunkZip(task[r].chunk_idx)}]
    /\ task' = [task EXCEPT ![r].pc = "except", ![r].raised_at = "create_chunk_zip",
                            ![r].error = "archive error"]
    /\ TaskWrites
    /\ UNCHANGED <<active_downloads, progress_messages, chunk_managers, store_vars>>

\* The task as it is left by "except Exception as e" and the finally block.
EndedByError(t, how, notified) ==
    [NoTask EXCEPT !.ended = how, !.raised_at = t.raised_at, !.error = t.error,
                   !.notified = notified]

\* "except Exception as e": update_request(status=FAILED,
\* error_message=str(e)) returns; send_message is awaited next.
T_HandlerWrite(r) ==
    /\ Running(r) /\ task[r].pc = "except"
    /\ download_requests' = SetFailed(download_requests, r, task[r].error)
    /\ task' = [task EXCEPT ![r].pc = "notice"]
    /\ TaskUnchanged
    /\ UNCHANGED <<active_downloads, progress_messages, chunk_managers, file_progress, chunks_table>>

\* The update_request of the handler raises (the store fails again): the
\* error leaves the handler, send_message is not reached, the finally block
\* runs.
T_HandlerWriteFails(r) ==
    /\ Running(r) /\ task[r].pc = "except"
    /\ Forget(r)
    /\ task' = [task EXCEPT ![r] = EndedByError(@, "raised", FALSE)]
    /\ TaskEnds(r)
    /\ UNCHANGED <<store_vars, disk>>

\* send_message with the failure text returns; the finally block runs.
T_Notice(r) ==
    /\ Running(r) /\ task[r].pc = "notice"
    /\ Forget(r)
    /\ task' = [task EXCEPT ![r] = EndedByError(@, "returned", TRUE)]
    /\ TaskEnds(r)
    /\ UNCHANGED <<store_vars, disk>>

\* get_pending_files or update_file_progress raises after the file was
\* fetched: the calls are inside the try of the loop body, so "except
\* Exception: continue" takes the error and the loop goes on with the next
\* file; the row stays as it was.
T_StoreFailsInLoop(r) ==
    /\ Running(r) /\ task[r].pc = "mark"
    /\ task' = [task EXCEPT ![r] = [ContinueLoop(@) EXCEPT
                            !.pc = "download",
                            !.outcomes[Len(task[r].outcomes)] = "store_error_after_fetch"]]
    /\ TaskUnchanged
    /\ UNCHANGED <<active_downloads, progress_messages, chunk_managers, store_vars>>

\* What the task waits for: the fetch of a file, or another await of the step
\* it is at.
AwaitOf(t) ==
    IF t.pc = "download" /\ t.file_idx < Len(t.plan[t.chunk_idx + 1].files)
    THEN "download_file" ELSE t.pc

KeepStatusOnCancel(reqs, rid) == reqs

\* "except asyncio.CancelledError": update_request(status=FAILED,
\* error_message="Download cancelled").
OnCancelled(reqs, rid) == SetFailed(reqs, rid, "Download cancelled")

\* The CancelledError is raised in the task. A task that never ran ends
\* without entering the coroutine; otherwise "except asyncio.CancelledError"
\* writes FAILED, raises again, and the finally block runs: the task ends
\* with the CancelledError. Raised inside "except Exception as e" it is not
\* taken by the clauses of the same try: only the finally block runs, and
\* the UPDATE the handler awaited has run or has not.
T_Cancelled(r) ==
    /\ proc # "down" /\ task[r].pc # "none" /\ task[r].cancelling
    /\ IF task[r].pc = "created"
       THEN UNCHANGED <<active_downloads, progress_messages, chunk_managers, download_requests>>
       ELSE IF task[r].pc = "except"
       THEN /\ \E ran \in BOOLEAN :
                 download_requests' = IF ran THEN SetFailed(download_requests, r, task[r].error)
                                      ELSE download_requests
            /\ Forget(r)
       ELSE IF task[r].pc = "notice"
       THEN /\ UNCHANGED download_requests
            /\ Forget(r)
       ELSE /\ download_requests' = OnCancelled(download_requests, r)
            /\ Forget(r)
    /\ task' = [task EXCEPT ![r] = [NoTask EXCEPT !.ended = "CancelledError",
                                                  !.raised_at = AwaitOf(task[r])]]
    /\ TaskUnchanged
    /\ UNCHANGED <<file_progress, chunks_table>>

\* ------------------------------------------------------------ the process
\* The requests with a task in active_downloads whose persisted status is
\* not terminal.
InFlight ==
    {r \in active_downloads : download_requests[r].status \notin {"completed", "failed"}}

\* What is left when the process is gone: the store, nothing in memory.
ProcessGone ==
    /\ proc' = "down"
    /\ shutdown_iter' = NoShutdown
    /\ handler' = IdleHandler
    /\ task' = [r \in 1..MaxRequests |-> NoTask]
    /\ active_downloads' = {}
    /\ progress_messages' = {}
    /\ chunk_managers' = {}

\* The process is killed between two steps.
Crash ==
    /\ proc \in {"up", "stopping", "aborting"}
    /\ restarts < MaxRestarts
    /\ ProcessGone
    /\ stopped_inflight' = IF proc = "up" THEN InFlight ELSE stopped_inflight
    /\ UNCHANGED <<plan_vars, unit_vars, disk, store_vars, restarts>>

\* The ids _resume_downloads starts a task for.
Resumable(reqs) ==
    {r \in get_active_requests(reqs) : reqs[r].status \in {"downloading", "pending"}}

\* The next start of the process: initialize() runs _resume_downloads.
Restart ==
    /\ proc = "down"
    /\ proc' = "up"
    /\ restarts' = restarts + 1
    /\ active_downloads' = Resumable(download_requests)
    /\ task' = [r \in 1..MaxRequests |->
                  IF r \in Resumable(download_requests)
                  THEN [NoTask EXCEPT !.pc = "created", !.resume = TRUE]
                  ELSE NoTask]
    /\ stopped_inflight' = {}
    /\ UNCHANGED <<plan_vars, unit_vars, disk, shutdown_iter, handler, progress_messages, chunk_managers,
                   store_vars>>

\* The key the iteration over active_downloads yields next: the dictionary
\* keeps insertion order, and ids are handed out in increasing order.
NextKey(keys) == CHOOSE x \in keys : \A y \in keys : x <= y

\* shutdown() is entered: the iteration over active_downloads.items() starts
\* and, with no await in between, yields its first item, whose task is
\* cancelled and awaited; with no active download the loop is over at once.
ShutdownBegin ==
    /\ proc = "up"
    /\ restarts < MaxRestarts
    /\ IF active_downloads = {}
       THEN /\ proc' = "stopped"
            /\ shutdown_iter' = NoShutdown
            /\ UNCHANGED task
       ELSE LET rid == NextKey(active_downloads)
            IN  /\ proc' = "stopping"
                /\ task' = [task EXCEPT ![rid] = CancelTask(@)]
                /\ shutdown_iter' = [awaiting |-> rid, seen |-> {rid},
                                     size |-> Cardinality(active_downloads)]
    /\ stopped_inflight' = InFlight
    /\ UNCHANGED <<plan_vars, unit_vars, disk, handler, active_downloads, progress_messages,
                   chunk_managers, store_vars, restarts>>

\* The iterator is advanced. A dictionary whose size changed since the
\* iteration began raises RuntimeError: shutdown() is left, and the event
\* loop cancels every task that is still running before it closes.
ShutdownNext ==
    /\ proc = "stopping" /\ shutdown_iter.awaiting = 0
    /\ IF Cardinality(active_downloads) # shutdown_iter.size
       THEN /\ proc' = "aborting"
            /\ task' = [r \in 1..MaxRequests |-> CancelTask(task[r])]
            /\ UNCHANGED shutdown_iter
       ELSE IF active_downloads \ shutdown_iter.seen # {}
       THEN LET rid == NextKey(active_downloads \ shutdown_iter.seen)
            IN  /\ task' = [task EXCEPT ![rid] = CancelTask(@)]
                /\ shutdown_iter' = [shutdown_iter EXCEPT !.awaiting = rid, !.seen = @ \cup {rid}]
                /\ UNCHANGED proc
       ELSE /\ proc' = "stopped"
            /\ UNCHANGED <<task, shutdown_iter>>
    /\ UNCHANGED <<plan_vars, unit_vars, disk, handler, active_downloads, progress_messages, chunk_managers,
                   store_vars, restarts, stopped_inflight>>

\* "await task" returns once the cancelled task has ended.
ShutdownAwaited ==
    /\ proc = "stopping" /\ shutdown_iter.awaiting # 0
    /\ task[shutdown_iter.awaiting].pc = "none"
    /\ shutdown_iter' = [shutdown_iter EXCEPT !.awaiting = 0]
    /\ UNCHANGED <<plan_vars, unit_vars, disk, proc, handler, task, active_downloads, progress_messages,
                   chunk_managers, store_vars, restarts, stopped_inflight>>

\* The process exits: after the rest of shutdown(), or, after a RuntimeError,
\* once every cancelled task has ended.
Exit ==
    /\ \/ proc = "stopped"
       \/ proc = "aborting" /\ \A r \in 1..MaxRequests : task[r].pc = "none"
    /\ ProcessGone
    /\ UNCHANGED <<plan_vars, unit_vars, disk, store_vars, restarts, stopped_inflight>>

Next ==
    \/ StartDownload_Create
    \/ StartDownload_Totals
    \/ StartDownload_AddFiles
    \/ StartDownload_CreateTask
    \/ Cancel_Begin
    \/ Cancel_Cleanup
    \/ \E r \in 1..MaxRequests :
         \/ T_GetRequest(r)
         \/ T_SetDownloading(r)
         \/ T_Plan(r)
         \/ T_Exception(r)
         \/ T_Assign(r)
         \/ T_TotalChunks(r)
         \/ T_ChunkStart(r)
         \/ T_DownloadReturns(r)
         \/ T_CallbackRaises(r)
         \/ T_DownloadFails(r)
         \/ T_RetriesUsedUp(r)
         \/ T_MarkCompleted(r)
         \/ T_StoreFails(r)
         \/ T_StoreFailsInLoop(r)
         \/ T_ZipFails(r)
         \/ T_HandlerWrite(r)
         \/ T_HandlerWriteFails(r)
         \/ T_Notice(r)
         \/ T_Zip(r)
         \/ T_SetUploading(r)
         \/ T_Upload(r)
         \/ T_AfterUpload(r)
         \/ T_NextChunk(r)
         \/ T_Complete(r)
         \/ T_Final(r)
         \/ T_Cancelled(r)
    \/ Crash
    \/ Restart
    \/ ShutdownBegin
    \/ ShutdownNext
    \/ ShutdownAwaited
    \/ Exit

Spec == Init /\ [][Next]_vars

\* ===================================== the progress store, operation by operation
\* The operations of Database, called with any arguments their signatures
\* admit, as the tests of the store call them.
StoreUnchanged == UNCHANGED <<plan_vars, unit_vars, disk, proc_vars, restarts, stopped_inflight>>

\* create_request(...)
S_create_request ==
    /\ Len(download_requests) < MaxStoreRequests
    /\ download_requests' = Append(download_requests, NewRequest)
    /\ UNCHANGED <<file_progress, chunks_table>>
    /\ StoreUnchanged

\* add_files(request_id, files)
S_add_files ==
    /\ \E rid \in 1..Len(download_requests), n \in 1..2 :
         /\ Len(file_progress) + n <= MaxRows
         /\ \E sizes \in [1..n -> 1..2] :
              file_progress' = add_files(file_progress, rid, FilesOfSizes(sizes))
    /\ UNCHANGED <<download_requests, chunks_table>>
    /\ StoreUnchanged

\* update_file_progress(file_id, status, downloaded_bytes)
S_update_file_progress ==
    /\ \E id \in 1..Len(file_progress), status \in {"completed"} :
         \E bytes \in {0, file_progress[id].file_size} :
              file_progress' = update_file_progress(file_progress, id, status, bytes)
    /\ UNCHANGED <<download_requests, chunks_table>>
    /\ StoreUnchanged

\* assign_files_to_chunk(request_id, file_ids, chunk_number)
S_assign_files_to_chunk ==
    /\ \E rid \in 1..Len(download_requests), n \in 0..MaxChunkNumber :
         \E file_ids \in SUBSET get_pending_files(file_progress, rid) :
              /\ file_ids # {}
              /\ file_progress' = AssignFiles(file_progress, file_ids, n)
              /\ chunks_table' = InsertChunkOrIgnore(chunks_table, rid, n)
    /\ UNCHANGED download_requests
    /\ StoreUnchanged

\* update_chunk_status(request_id, chunk_number, status, zip_path)
S_update_chunk_status ==
    /\ \E rid \in 1..Len(download_requests), n \in 0..MaxChunkNumber :
         \E status \in {"zipped", "completed"} :
              chunks_table' = update_chunk_status(chunks_table, rid, n, status, status = "zipped")
    /\ UNCHANGED <<download_requests, file_progress>>
    /\ StoreUnchanged

StoreNext ==
    \/ S_create_request
    \/ S_add_files
    \/ S_update_file_progress
    \/ S_assign_files_to_chunk
    \/ S_update_chunk_status

SpecStore == Init /\ [][StoreNext]_vars

\* ============================================== properties of the pipeline
\* The statuses of the rows of request rid that carry the handle.
RowStatuses(rid, handle) ==
    {file_progress[i].status : i \in {j \in 1..Len(file_progress) :
        file_progress[j].request_id = rid /\ file_progress[j].mega_handle = handle}}

C6_InFlightResumed ==
    [][(proc = "down" /\ proc' = "up") => stopped_inflight \subseteq active_downloads']_vars

Stats(rid) == get_download_stats(file_progress, chunks_table, rid)

\* C7: the stats of every request have completed_files <= total_files and
\* downloaded_bytes <= total_size.
C7_StatsBounded ==
    \A rid \in 1..Len(download_requests) :
        /\ Stats(rid).completed_files <= Stats(rid).total_files
        /\ Stats(rid).downloaded_bytes <= Stats(rid).total_size

\* A resumed run, after a file that failed and a file that was marked.
C7_Witness ==
    /\ restarts = 1
    /\ \E r \in 1..MaxRequests :
         /\ task[r].resume /\ task[r].pc = "set_uploading"
         /\ Stats(r).completed_files = 2 /\ Stats(r).total_files = 3
         /\ Stats(r).downloaded_bytes = 4

\* The rows of a request, counted without the store's queries.
RowsOf(rid) == {i \in 1..Len(file_progress) : file_progress[i].request_id = rid}

ChunksOf(rid) == {c \in chunks_table : c.request_id = rid}

ExpectedStats(rid) ==
    [total_files |-> Cardinality(RowsOf(rid)),
     total_size |-> SumSeq([i \in 1..Len(file_progress) |->
                        IF i \in RowsOf(rid) THEN file_progress[i].file_size ELSE 0]),
     downloaded_bytes |-> SumSeq([i \in 1..Len(file_progress) |->
                        IF i \in RowsOf(rid) THEN file_progress[i].downloaded_bytes ELSE 0]),
     completed_files |-> Cardinality({i \in RowsOf(rid) : file_progress[i].status = "completed"}),
     total_chunks |-> Cardinality(ChunksOf(rid)),
     completed_chunks |-> Cardinality({c \in ChunksOf(rid) : c.status = "completed"})]

\* A step of add_files: rows are appended, the old ones kept.
FilesAdded ==
    /\ Len(file_progress') > Len(file_progress)
    /\ SubSeq(file_progress', 1, Len(file_progress)) = file_progress

NewRows == {i \in 1..Len(file_progress') : i > Len(file_progress)}

\* C8: the stats of a request are the counts and sums over its own file and
\* chunk rows; add_files raises total_files by the number of files added, for
\* that request only, and the added rows are pending.
C8_StatsFromRows ==
    /\ [](\A rid \in 1..MaxStoreRequests : Stats(rid) = ExpectedStats(rid))
    /\ [][FilesAdded =>
            /\ \A i \in NewRows : /\ file_progress'[i].status = "pending"
                                  /\ file_progress'[i].downloaded_bytes = 0
            /\ \A rid \in 1..MaxStoreRequests :
                 /\ Stats(rid)'.total_files = Stats(rid).total_files
                      + Cardinality({i \in NewRows : file_progress'[i].request_id = rid})
                 /\ Stats(rid)'.completed_files = Stats(rid).completed_files
                 /\ Stats(rid)'.downloaded_bytes = Stats(rid).downloaded_bytes]_vars

\* Two requests with rows of their own, one with a completed file and a
\* completed chunk, the other with neither.
C8_Witness ==
    /\ Len(download_requests) = 2
    /\ Stats(1).total_files = 2 /\ Stats(1).completed_files = 1 /\ Stats(1).downloaded_bytes = 2
    /\ Stats(1).completed_chunks = 1
    /\ Stats(2).total_files = 1 /\ Stats(2).completed_files = 0 /\ Stats(2).total_chunks = 1
    /\ Stats(2).completed_chunks = 0

\* The edges of the documented state machine. The code has no ANALYZING
\* status, so PENDING -> ANALYZING -> DOWNLOADING is read as the one persisted
\* edge PENDING -> DOWNLOADING.
DocumentedEdges ==
    {<<"pending", "downloading">>, <<"downloading", "uploading">>,
     <<"uploading", "downloading">>, <<"uploading", "completed">>}
      \cup ({"pending", "downloading", "uploading", "paused"} \X {"paused", "failed"})

\* C9: every change of a request's persisted status is an edge of the
\* documented state machine.
C9_DocumentedEdgesOnly ==
    [][\A r \in 1..Len(download_requests) :
          download_requests'[r].status # download_requests[r].status
            => <<download_requests[r].status, download_requests'[r].status>> \in DocumentedEdges]_vars

\* The chunks a run has to process: from start_chunk to the last one.
RunChunks(t) == {i \in 0..(Len(t.plan) - 1) : i >= t.start_chunk}

\* The status a running task holds at each point of the chunk loop.
C10_StatusOfPhase ==
    \A r \in 1..MaxRequests :
        Running(r) =>
            /\ task[r].pc \in {"folder", "assign", "download", "mark", "set_uploading"}
                 => download_requests[r].status = "downloading"
            /\ (task[r].pc = "chunk" /\ task[r].chunk_idx < Len(task[r].plan))
                 => download_requests[r].status = "downloading"
            /\ task[r].pc \in {"upload", "after_upload", "next"}
                 => download_requests[r].status = "uploading"
            /\ task[r].pc \in {"download", "mark", "set_uploading", "upload"}
                 => task[r].chunk_idx \notin task[r].attempted

\* The status changes of a run, each with the point of the loop it is made at.
C10_StatusSteps ==
    \A r \in 1..Len(download_requests) :
        LET old == download_requests[r].status
            new == download_requests'[r].status
            t == task[r]
        IN  /\ (old = "downloading" /\ new = "uploading")
                 => /\ t.pc = "set_uploading" /\ t.chunk_idx \notin t.attempted
                    /\ chunks_table = update_chunk_status(chunks_table, r, t.chunk_idx, "zipped", TRUE)
            /\ (old = "uploading" /\ new = "downloading")
                 => /\ t.pc = "next" /\ t.chunk_idx \in t.attempted
                    /\ t.chunk_idx + 1 \in RunChunks(t)
                    /\ task'[r].chunk_idx = t.chunk_idx + 1
            /\ (old # "completed" /\ new = "completed")
                 => /\ old = "uploading"
                    /\ t.attempted = RunChunks(t)
                    /\ t.chunk_idx = Len(t.plan)

\* C10: in one run DOWNLOADING and UPLOADING alternate once per chunk, and
\* COMPLETED is written only after the delivery attempt of the last chunk,
\* when no chunk of the run is unprocessed.
C10_AlternateOncePerChunk == []C10_StatusOfPhase /\ [][C10_StatusSteps]_vars

\* A run from the first chunk that delivered both chunks and wrote COMPLETED.
C10_Witness ==
    \E r \in 1..MaxRequests :
        /\ task[r].pc = "final" /\ ~ task[r].resume /\ ~ task[r].cancelling
        /\ task[r].attempted = {0, 1}
        /\ download_requests[r].status = "completed"

\* ================================== download_file and its retry decorator
Min(a, b) == IF a <= b THEN a ELSE b

RECURSIVE Pow2(_)
Pow2(n) == IF n <= 0 THEN 1 ELSE 2 * Pow2(n - 1)

\* What one attempt meets: the fetch works (no message), or the provider
\* library raises with a message (the words of the message, lower case).
NoError == {}

ProviderAnswers ==
    {NoError, {"quota", "exceeded"}, {"over", "transfer", "limit"}, {"bandwidth"},
     {"connection", "reset"}}

\* if 'quota' in error_msg or 'bandwidth' in error_msg or 'limit' in error_msg
IsQuotaMessage(msg) == "quota" \in msg \/ "bandwidth" \in msg \/ "limit" \in msg

\* The except clause of download_file: the exception one failed attempt raises.
AttemptError(msg) ==
    IF IsQuotaMessage(msg) THEN "MegaQuotaExceededError" ELSE "MegaDownloadError"

\* retry=retry_if_exception_type(MegaQuotaExceededError)
RetryOn(exc) == exc = "MegaQuotaExceededError"

\* stop=stop_after_attempt(5)
StopAfterAttempt(attempt_number) == attempt_number >= stop_attempts

\* wait=wait_exponential(multiplier=1, min=60, max=600): multiplier *
\* 2^(attempt_number - 1), kept between min and max.
wait_exponential(attempt_number) ==
    Max(Max(0, wait_min), Min(wait_multiplier * Pow2(attempt_number - 1), wait_max))

RetryInit ==
    /\ PipeInit /\ PlannerIdle
    /\ upload_call = NoUpload /\ store_call = NoCall /\ split_call = NoSplit
    /\ store_lock = NoLock /\ folder_call = NoFolderCall
    /\ \E script \in [1..MaxProviderAnswers -> ProviderAnswers] :
         retry_call = [NoRetry EXCEPT !.pc = "called", !.script = script]

\* The decorated function is called: the first attempt starts.
R_Call ==
    /\ retry_call.pc = "called"
    /\ retry_call' = [retry_call EXCEPT !.pc = "attempt", !.attempt_number = 1]
    /\ UNCHANGED <<plan_vars, upload_call, store_call, split_call, store_lock, folder_call, pipe_vars>>

\* One attempt: the body of download_file runs; the decorator then returns
\* the result, raises, or sleeps before the next attempt.
R_Attempt ==
    /\ retry_call.pc = "attempt"
    /\ retry_call.attempt_number <= MaxProviderAnswers
    /\ LET answer == retry_call.script[retry_call.attempt_number]
           exc == AttemptError(answer)
       IN  IF answer = NoError
           THEN retry_call' = [retry_call EXCEPT !.pc = "returned"]
           ELSE IF ~ RetryOn(exc)
           THEN retry_call' = [retry_call EXCEPT !.pc = "raised", !.raised = exc,
                                                 !.errors = Append(@, exc)]
           ELSE IF StopAfterAttempt(retry_call.attempt_number)
           THEN retry_call' = [retry_call EXCEPT !.pc = "raised", !.raised = RaisedAtStop(exc),
                                                 !.errors = Append(@, exc)]
           ELSE retry_call' = [retry_call EXCEPT !.pc = "sleep", !.errors = Append(@, exc),
                                 !.waits = Append(@, wait_exponential(retry_call.attempt_number))]
    /\ UNCHANGED <<plan_vars, upload_call, store_call, split_call, store_lock, folder_call, pipe_vars>>

\* The sleep is over: the next attempt starts.
R_Wake ==
    /\ retry_call.pc = "sleep"
    /\ retry_call' = [retry_call EXCEPT !.pc = "attempt", !.attempt_number = @ + 1]
    /\ UNCHANGED <<plan_vars, upload_call, store_call, split_call, store_lock, folder_call, pipe_vars>>

RetryNext == R_Call \/ R_Attempt \/ R_Wake

SpecRetry == RetryInit /\ [][RetryNext]_vars

\* C13: an attempt is repeated only after the quota error, at most
\* stop_attempts attempts are made, the waits do not decrease and lie between
\* wait_min and wait_max, and a call whose attempts are used up raises the
\* quota error.
C13_RetryContract ==
    /\ retry_call.attempt_number <= stop_attempts
    /\ \A i \in 1..Len(retry_call.errors) :
         i < retry_call.attempt_number => retry_call.errors[i] = "MegaQuotaExceededError"
    /\ \A i \in 1..Len(retry_call.waits) :
         /\ wait_min <= retry_call.waits[i] /\ retry_call.waits[i] <= wait_max
         /\ i > 1 => retry_call.waits[i - 1] <= retry_call.waits[i]
    /\ (retry_call.pc = "raised" /\ retry_call.errors[Len(retry_call.errors)] = "MegaQuotaExceededError")
         => retry_call.raised = "MegaQuotaExceededError"

\* The same without the exception the exhausted call ends with.
RetryBounded ==
    /\ retry_call.attempt_number <= stop_attempts
    /\ \A i \in 1..Len(retry_call.errors) :
         i < retry_call.attempt_number => retry_call.errors[i] = "MegaQuotaExceededError"
    /\ \A i \in 1..Len(retry_call.waits) :
         /\ wait_min <= retry_call.waits[i] /\ retry_call.waits[i] <= wait_max
         /\ i > 1 => retry_call.waits[i - 1] <= retry_call.waits[i]
    /\ (retry_call.pc = "raised" /\ retry_call.raised = "RetryError")
         => retry_call.attempt_number = stop_attempts

\* ================================================ upload_file on its own
\* part_size = self.max_file_size - (10 * 1024 * 1024)
part_size == max_file_size - split_margin

\* The number of parts the read loop of _upload_split_file writes.
PartCount(size) == CeilDiv(size, part_size)

\* The artifacts handed to upload_file: below, at and above the limit.
ArtifactSizes ==
    {1, max_file_size, max_file_size + 1}
      \cup {k * part_size : k \in 2..MaxParts}
      \cup {k * part_size + 1 : k \in 2..(MaxParts - 1)}

\* What the sink answers to one send_document.
SinkAnswers == {"ok", "RetryAfter", "TelegramError"}

UploadInit ==
    /\ PipeInit /\ PlannerIdle
    /\ retry_call = NoRetry /\ store_call = NoCall /\ split_call = NoSplit
    /\ store_lock = NoLock /\ folder_call = NoFolderCall
    /\ \E size \in ArtifactSizes, exists \in BOOLEAN :
         upload_call = [NoUpload EXCEPT !.pc = "called", !.size = size, !.exists = exists]

\* if file_size > self.max_file_size
TooLarge(size) == size > max_file_size

\* upload_file up to the first send: a missing file fails at once, a file
\* above the limit goes to _upload_split_file.
U_Call ==
    /\ upload_call.pc = "called"
    /\ upload_call' =
         IF ~ upload_call.exists
         THEN [upload_call EXCEPT !.pc = "returned", !.result = "false"]
         ELSE IF TooLarge(upload_call.size)
         THEN [upload_call EXCEPT !.pc = "split", !.split = TRUE]
         ELSE [upload_call EXCEPT !.pc = "submit"]
    /\ UNCHANGED <<plan_vars, retry_call, store_call, split_call, store_lock, folder_call, pipe_vars>>

\* _upload_split_file: the part files are written, then the first part is
\* handed to upload_file.
U_Split ==
    /\ upload_call.pc = "split"
    /\ upload_call' = [upload_call EXCEPT !.pc = "submit",
                                          !.parts = PartCount(upload_call.size),
                                          !.on_disk = 1..PartCount(upload_call.size),
                                          !.part = 1]
    /\ UNCHANGED <<plan_vars, retry_call, store_call, split_call, store_lock, folder_call, pipe_vars>>

\* _upload_split_file: writing the parts raises (the disk is full): the
\* except branch removes the parts written so far and returns False.
U_SplitFails ==
    /\ upload_call.pc = "split"
    /\ \E written \in 0..(PartCount(upload_call.size) - 1) :
         upload_call' = [upload_call EXCEPT !.pc = "returned", !.parts = written,
                                            !.on_disk = {}, !.result = "false"]
    /\ UNCHANGED <<plan_vars, retry_call, store_call, split_call, store_lock, folder_call, pipe_vars>>

\* upload_file of the artifact, or of the current part: one send_document.
\*   ok: the call returns True; a part is removed and the next part follows.
\*   RetryAfter: after the sleep upload_file calls itself with the same file.
\*   any other error: the call returns False; _upload_split_file returns
\*   False at once ("if not success: return False").
U_Submit ==
    /\ upload_call.pc = "submit"
    /\ upload_call.total < MaxSubmissions
    /\ \E answer \in SinkAnswers :
         LET sent == [upload_call EXCEPT !.submissions = @ + 1, !.total = @ + 1]
         IN  upload_call' =
               CASE answer = "RetryAfter" -> sent
                 [] answer = "TelegramError" ->
                      [sent EXCEPT !.pc = "returned", !.result = "false",
                                   !.failed_part = upload_call.part]
                 [] answer = "ok" /\ ~ upload_call.split ->
                      [sent EXCEPT !.pc = "returned", !.result = "true"]
                 [] answer = "ok" /\ upload_call.split /\ upload_call.part = upload_call.parts ->
                      [sent EXCEPT !.pc = "returned", !.result = "true",
                                   !.on_disk = @ \ {upload_call.part}]
                 [] OTHER ->
                      [sent EXCEPT !.on_disk = @ \ {upload_call.part}, !.part = @ + 1,
                                   !.submissions = 0]
    /\ UNCHANGED <<plan_vars, retry_call, store_call, split_call, store_lock, folder_call, pipe_vars>>

UploadNext == U_Call \/ U_Split \/ U_SplitFails \/ U_Submit

SpecUpload == UploadInit /\ [][UploadNext]_vars

\* C19: one file is handed to the sink at most twice by upload_file: once,
\* and once more after a RetryAfter.
C19_AtMostTwoSubmissions == upload_call.submissions <= 2

\* C20: when the delivery of a part fails, the call returns failure and no
\* part file is left on disk.
C20_PartsRemovedOnFailure ==
    (upload_call.pc = "returned" /\ upload_call.split /\ upload_call.failed_part # 0)
        => upload_call.result = "false" /\ upload_call.on_disk = {}

\* ============================ the file loop, the folder and the deliveries
\* The file loop of request r has just recorded outcome o for a file.
Recorded(r, o) ==
    /\ Len(task'[r].outcomes) = Len(task[r].outcomes) + 1
    /\ task'[r].outcomes[Len(task'[r].outcomes)] = o

\* The files of the chunk the task is at.
FilesAt(t) == t.plan[t.chunk_idx + 1].files

\* The task is inside the body of the chunk loop.
InChunk(t) ==
    t.pc \in {"download", "mark", "set_uploading", "upload", "after_upload", "next"}

\* C11: when the quota error has used up the attempts of download_file, the
\* file loop is left, no further file is fetched in this run, and the request
\* is PAUSED with the error text.
C11_QuotaPauses ==
    [][\A r \in 1..MaxRequests :
          Recorded(r, RaisedAtStop("MegaQuotaExceededError"))
            => /\ task'[r].pc = "none"
               /\ download_requests'[r].status = "paused"
               /\ download_requests'[r].error_message # ""]_vars

\* C14, one step: a file whose fetch ends in an error that is not a quota
\* error writes nothing to the store and hands the loop to the next file of
\* the same chunk.
C14_ErrorStep ==
    \A r \in 1..MaxRequests :
        Recorded(r, "MegaDownloadError")
            => /\ UNCHANGED store_vars
               /\ task'[r].pc = "download"
               /\ task'[r].chunk_idx = task[r].chunk_idx
               /\ task'[r].file_idx = task[r].file_idx + 1
               /\ download_requests'[r].status = "downloading"

\* C14, the loop: the files of a chunk are attempted in order, one outcome
\* each; the archive and the delivery come after every file was attempted,
\* whatever the outcomes; the request is not FAILED while its task runs.
C14_LoopRunsOn ==
    \A r \in 1..MaxRequests :
        (Running(r) /\ InChunk(task[r])) =>
            /\ task[r].pc \in {"download", "mark"} => Len(task[r].outcomes) = task[r].file_idx
                                                         + (IF task[r].pc = "mark" THEN 1 ELSE 0)
            /\ task[r].pc \notin {"download", "mark"}
                 => Len(task[r].outcomes) = Len(FilesAt(task[r]))
            /\ task[r].pc \in {"set_uploading", "upload"} => ChunkZip(task[r].chunk_idx) \in disk[r]
            /\ task[r].pc \in {"after_upload", "next"} => task[r].chunk_idx \in task[r].attempted
            /\ download_requests[r].status # "failed"

\* C14: a retrieval error of one file that is not a quota error leaves the
\* file pending, the later files of the chunk are still attempted in order,
\* the chunk is still archived and delivered, and the request is not FAILED
\* because of it.
C14_FileErrorSkipsFile == []C14_LoopRunsOn /\ [][C14_ErrorStep]_vars

\* The first file of chunk 0 failed, the second was attempted after it and
\* fetched, the chunk was archived and delivered, the failed file is still
\* pending and the request is not FAILED.
C14_Witness ==
    \E r \in 1..MaxRequests :
        /\ Running(r) /\ task[r].pc = "next" /\ task[r].chunk_idx = 0 /\ ~ task[r].resume
        /\ task[r].outcomes = <<"MegaDownloadError", "fetched_then_raised">>
        /\ task[r].upload_success
        /\ RowStatuses(r, FilesAt(task[r])[1].handle) = {"pending"}
        /\ download_requests[r].status = "uploading"

\* The bytes of file f were fetched into the chunk directory in this attempt.
FetchedOutcomes == {"returned", "fetched_then_raised"}

\* C15: a file whose bytes were fetched has its FileEntry completed with
\* downloaded_bytes = size before the next file is attempted.
C15_FetchedIsCompleted ==
    \A r \in 1..MaxRequests :
        (Running(r) /\ InChunk(task[r])) =>
            \A k \in 1..Len(task[r].outcomes) :
                (k <= task[r].file_idx /\ task[r].outcomes[k] \in FetchedOutcomes)
                    => \E i \in RowsOf(r) :
                          /\ file_progress[i].mega_handle = FilesAt(task[r])[k].handle
                          /\ file_progress[i].status = "completed"
                          /\ file_progress[i].downloaded_bytes = FilesAt(task[r])[k].size

\* C16, between store writes: the downloaded_bytes of a request never decreases.
C16_NeverDecreases ==
    \A r \in 1..Len(download_requests) :
        download_requests'[r].downloaded_bytes >= download_requests[r].downloaded_bytes

\* C16, at the end: in a run from the first chunk, when COMPLETED is written
\* downloaded_bytes is the total size of the files the run fetched.
C16_TotalAtCompleted ==
    \A r \in 1..MaxRequests :
        (task[r].pc = "final" /\ ~ task[r].resume /\ download_requests[r].status = "completed")
            => download_requests[r].downloaded_bytes = task[r].fetched_bytes

\* C16: the downloaded_bytes of a request never decreases, and at COMPLETED
\* it equals the total size of the files downloaded.
C16_DownloadedBytes == []C16_TotalAtCompleted /\ [][C16_NeverDecreases]_vars

\* What lies in the folder of request r for chunk i.
ArtifactsOf(r, i) == {a \in disk[r] : a.chunk = i}

\* C17: after the delivery of chunk i succeeded and before the next chunk
\* starts, the store has the chunk as 'completed' and nothing of the chunk is
\* left in the folder.
C17_DeliveredIsCleaned ==
    \A r \in 1..MaxRequests :
        (Running(r) /\ task[r].pc = "next" /\ task[r].upload_success)
            => /\ \E c \in chunks_table :
                     c.request_id = r /\ c.chunk_number = task[r].chunk_idx /\ c.status = "completed"
               /\ ArtifactsOf(r, task[r].chunk_idx) = {}

\* C18: after the delivery of chunk i failed, no step of the running task
\* marks the chunk completed or deletes its directory or its archive, and the
\* request is not FAILED by it. A cancel by the user is not such a step.
C18_UndeliveredIsKept ==
    [][\A r \in 1..MaxRequests :
          (Running(r) /\ ~ task'[r].cancelling) =>
            \A i \in task[r].undelivered :
                /\ {ChunkDir(i), ChunkZip(i)} \cap disk[r] \subseteq disk'[r]
                /\ \A c \in chunks_table' :
                      (c.request_id = r /\ c.chunk_number = i) => c.status # "completed"
                /\ download_requests'[r].status # "failed"]_vars

\* ======================================== a start on a store left behind
\* The store a stopped process left: no request, or one request whose files
\* were added, with any status of DownloadStatus and the chunk it was at.
LeftRequests ==
    {<<>>} \cup
    {<<[NewRequest EXCEPT !.status = s, !.current_chunk = c, !.total_chunks = 2,
                          !.total_files = Len(FolderFiles),
                          !.total_size = SumSeq(Sizes(FolderFiles)),
                          !.error_message = IF s \in {"paused", "failed"} THEN "error" ELSE ""]>> :
        s \in DownloadStatus, c \in 0..1}

ResumeInit ==
    /\ PlannerIdle
    /\ UnitsIdle
    /\ proc = "down"
    /\ shutdown_iter = NoShutdown
    /\ handler = IdleHandler
    /\ task = [r \in 1..MaxRequests |-> NoTask]
    /\ active_downloads = {}
    /\ progress_messages = {}
    /\ chunk_managers = {}
    /\ download_requests \in LeftRequests
    /\ file_progress = IF download_requests = <<>> THEN <<>> ELSE add_files(<<>>, 1, FolderFiles)
    /\ chunks_table = {}
    /\ disk = [r \in 1..MaxRequests |-> {}]
    /\ restarts = 0
    /\ stopped_inflight = {}

SpecResume == ResumeInit /\ [][Next]_vars

PausedNeverRuns ==
    \A r \in 1..Len(download_requests) :
        download_requests[r].status = "paused" => task[r].pc = "none"

\* ========================================================== cancellation
CancelReasons == {"Cancelled by user", "Download cancelled"}

\* The task of r waits for a file of its chunk to be fetched.
FileInFlight(t) == AwaitOf(t) = "download_file"

\* The step leaves the file rows and the chunk rows of request r as they are.
RowsKept(r) ==
    /\ \A i \in RowsOf(r) : i <= Len(file_progress') /\ file_progress'[i] = file_progress[i]
    /\ {i \in 1..Len(file_progress') : file_progress'[i].request_id = r} = RowsOf(r)
    /\ {c \in chunks_table' : c.request_id = r} = ChunksOf(r)

\* C21, the step of the task's handler: a task cancelled while a file is in
\* flight ends with the CancelledError, the request is FAILED with a
\* cancellation reason, and no other request, no file row and no chunk row
\* is written.
C21_CancelledStep ==
    \A r \in 1..MaxRequests :
        (task[r].cancelling /\ FileInFlight(task[r]) /\ task'[r].pc = "none" /\ proc' # "down")
            => /\ task'[r].ended = "CancelledError"
               /\ download_requests'[r].status = "failed"
               /\ download_requests'[r].error_message \in CancelReasons
               /\ \A q \in (1..Len(download_requests)) \ {r} :
                     download_requests'[q] = download_requests[q]
               /\ UNCHANGED <<file_progress, chunks_table>>

\* C21, the steps around it: from cmd_cancel's write on, the request is FAILED
\* with a cancellation reason, before and after the task's own handler, and
\* no step writes a file row or a chunk row of the request while the
\* cancelled task waits.
C21_CancelPending ==
    \A r \in 1..MaxRequests :
        (task[r].cancelling /\ FileInFlight(task[r]) /\ r \notin active_downloads /\ proc # "down")
            => /\ download_requests[r].status = "failed"
               /\ download_requests[r].error_message \in CancelReasons
               /\ "completed" \notin RowStatuses(r, CurrentFile(task[r]).handle)
                    \/ task[r].resume

\* C21: cancelling a request while a file of chunk i is in flight leaves it
\* FAILED with a cancellation reason, the cancellation is raised out of the
\* task, the file's row is not marked completed and no other row changes,
\* whichever of cmd_cancel's cleanup and the task's handler runs first.
C21_CancelMidChunk ==
    /\ []C21_CancelPending
    /\ [][C21_CancelledStep]_vars
    /\ [][\A r \in 1..MaxRequests :
             (task[r].cancelling /\ FileInFlight(task[r])) => RowsKept(r)]_vars

\* cmd_cancel has written FAILED for a request whose task was fetching the
\* second file of chunk 0, the handler has not cleaned up yet, and the task's
\* own handler has run and ended the task.
C21_Witness ==
    \E r \in 1..MaxRequests :
        /\ handler = [pc |-> "cancel_cleanup", rid |-> r]
        /\ task[r].pc = "none" /\ task[r].ended = "CancelledError"
        /\ task[r].raised_at = "download_file"
        /\ download_requests[r].status = "failed"
        /\ download_requests[r].error_message = "Download cancelled"
        /\ ChunkFile(0, 1) \in disk[r] /\ ChunkFile(0, 2) \notin disk[r] /\ ChunkZip(0) \notin disk[r]
        /\ RowStatuses(r, 2) = {"pending"}

\* ================================================================ shutdown
\* C22: shutdown() does not abort before it reaches the logout, and when it
\* reaches it (proc = "stopped") every task of active_downloads has been
\* cancelled, awaited and has ended.
C22_ShutdownReachesLogout ==
    /\ proc # "aborting"
    /\ proc = "stopped" =>
          \A r \in active_downloads \cup shutdown_iter.seen : task[r].pc = "none"

\* ================================================= the concurrency limit
\* The handlers and the tasks of several requests, each handler as one step
\* (updates are handled one at a time) and each task reduced to the steps
\* that change its status.
CapInit ==
    /\ PlannerIdle
    /\ UnitsIdle
    /\ proc = "up"
    /\ shutdown_iter = NoShutdown
    /\ handler = IdleHandler
    /\ task = [r \in 1..MaxCapRequests |-> NoTask]
    /\ active_downloads = {}
    /\ progress_messages = {}
    /\ chunk_managers = {}
    /\ download_requests = <<>>
    /\ file_progress = <<>>
    /\ chunks_table = {}
    /\ disk = [r \in 1..MaxRequests |-> {}]
    /\ restarts = 0
    /\ stopped_inflight = {}

CapUnchanged ==
    UNCHANGED <<plan_vars, unit_vars, disk, shutdown_iter, handler, chunks_table, stopped_inflight>>

\* user_downloads: the keys of active_downloads whose task is not done.
user_downloads == {rid \in active_downloads : task[rid].pc # "none"}

\* if len(user_downloads) >= config.max_concurrent_downloads: return
LimitReached == Cardinality(user_downloads) >= max_concurrent_downloads

\* What _start_download has written when it reaches the last edit_text.
Cap_Rows(rid) ==
    /\ download_requests' =
         Append(download_requests,
                [NewRequest EXCEPT !.total_files = Len(FolderFiles),
                                   !.total_size = SumSeq(Sizes(FolderFiles)),
                                   !.total_chunks = Max(1, CeilDiv(SumSeq(Sizes(FolderFiles)),
                                                                   chunk_size_bytes))])
    /\ file_progress' = add_files(file_progress, rid, FolderFiles)

\* _start_download for a valid link, run to its end: the rows are written and
\* the task is created.
Cap_Start ==
    /\ proc = "up"
    /\ Len(download_requests) < MaxCapRequests
    /\ ~ LimitReached
    /\ LET rid == Len(download_requests) + 1
       IN  /\ Cap_Rows(rid)
           /\ progress_messages' = progress_messages \cup {rid}
           /\ active_downloads' = active_downloads \cup {rid}
           /\ task' = [task EXCEPT ![rid] = [NoTask EXCEPT !.pc = "created"]]
    /\ UNCHANGED <<proc, restarts, chunk_managers>>
    /\ CapUnchanged

\* The same, but the last edit_text raises (a Telegram error: the text does
\* not parse as Markdown, or the call times out): "except Exception" reports
\* it; the rows are written and no task is created.
Cap_StartRaises ==
    /\ proc = "up"
    /\ Len(download_requests) < MaxCapRequests
    /\ ~ LimitReached
    /\ Cap_Rows(Len(download_requests) + 1)
    /\ UNCHANGED <<proc, restarts, task, active_downloads, progress_messages, chunk_managers>>
    /\ CapUnchanged

\* The task of r goes on to its next status, or ends with COMPLETED.
Cap_TaskStep(r) ==
    /\ proc = "up" /\ task[r].pc # "none"
    /\ IF task[r].pc = "created"
       THEN /\ download_requests' = SetStatus(download_requests, r, "downloading")
            /\ chunk_managers' = chunk_managers \cup {r}
            /\ task' = [task EXCEPT ![r].pc = "download"]
            /\ UNCHANGED <<active_downloads, progress_messages>>
       ELSE IF task[r].pc = "download"
       THEN /\ download_requests' = SetStatus(download_requests, r, "uploading")
            /\ task' = [task EXCEPT ![r].pc = "upload"]
            /\ UNCHANGED <<active_downloads, progress_messages, chunk_managers>>
       ELSE /\ download_requests' = SetStatus(download_requests, r, "completed")
            /\ Forget(r)
            /\ task' = [task EXCEPT ![r] = [NoTask EXCEPT !.ended = "returned"]]
    /\ UNCHANGED <<proc, restarts, file_progress>>
    /\ CapUnchanged

\* "except Exception": the task of r ends with FAILED.
Cap_TaskFails(r) ==
    /\ proc = "up" /\ task[r].pc = "download"
    /\ download_requests' = SetFailed(download_requests, r, "error")
    /\ Forget(r)
    /\ task' = [task EXCEPT ![r] = [NoTask EXCEPT !.ended = "returned"]]
    /\ UNCHANGED <<proc, restarts, file_progress>>
    /\ CapUnchanged

\* cmd_cancel for request rid. The cancelled task writes FAILED and ends
\* before a later handler can create a task: its write waits for the store's
\* lock ahead of every write of a later handler.
Cap_Cancel(rid) ==
    /\ proc = "up" /\ rid \in 1..Len(download_requests)
    /\ download_requests' = SetFailed(download_requests, rid,
                                      IF rid \in active_downloads /\ task[rid].pc \notin {"none", "created"}
                                      THEN "Download cancelled" ELSE "Cancelled by user")
    /\ IF rid \in active_downloads
       THEN /\ task' = [task EXCEPT ![rid] = IF @.pc = "none" THEN @
                                             ELSE [NoTask EXCEPT !.ended = "CancelledError"]]
            /\ active_downloads' = active_downloads \ {rid}
       ELSE UNCHANGED <<task, active_downloads>>
    /\ progress_messages' = IF task[rid].pc \in {"none", "created"} THEN progress_messages
                            ELSE progress_messages \ {rid}
    /\ chunk_managers' = chunk_managers \ {rid}
    /\ UNCHANGED <<proc, restarts, file_progress>>
    /\ CapUnchanged

\* The process is killed.
Cap_Crash ==
    /\ proc = "up"
    /\ restarts < MaxRestarts
    /\ proc' = "down"
    /\ task' = [r \in 1..MaxCapRequests |-> NoTask]
    /\ active_downloads' = {}
    /\ progress_messages' = {}
    /\ chunk_managers' = {}
    /\ UNCHANGED <<restarts, download_requests, file_progress>>
    /\ CapUnchanged

\* The next start: _resume_downloads creates a task for every request it is
\* to resume; it does not look at max_concurrent_downloads.
Cap_Restart ==
    /\ proc = "down"
    /\ proc' = "up"
    /\ restarts' = restarts + 1
    /\ active_downloads' = Resumable(download_requests)
    /\ task' = [r \in 1..MaxCapRequests |->
                  IF r \in Resumable(download_requests)
                  THEN [NoTask EXCEPT !.pc = "created", !.resume = TRUE]
                  ELSE NoTask]
    /\ UNCHANGED <<progress_messages, chunk_managers, download_requests, file_progress>>
    /\ CapUnchanged

CapNext ==
    \/ Cap_Start
    \/ Cap_StartRaises
    \/ \E r \in 1..MaxCapRequests :
         \/ Cap_TaskStep(r)
         \/ Cap_TaskFails(r)
         \/ Cap_Cancel(r)
    \/ Cap_Crash
    \/ Cap_Restart

SpecCap == CapInit /\ [][CapNext]_vars

\* The tasks that were started and are not done.
RunningTasks == {r \in DOMAIN task : task[r].pc # "none"}

\* C23: at every moment at most max_concurrent_downloads request tasks are
\* running, the tasks started by the resume at process start included.
C23_AtMostMaxRunning == Cardinality(RunningTasks) <= max_concurrent_downloads

\* As long as the process has not been started again, the limit holds.
LimitHoldsBeforeRestart ==
    restarts = 0 => Cardinality(RunningTasks) <= max_concurrent_downloads

\* ================================================== the order of the work
\* C24, states: while the task works on chunk i the persisted current_chunk
\* is i, every earlier chunk of the run has had its delivery attempt, the
\* folder holds nothing of a later chunk, and the files of the chunk up to
\* the loop index have been attempted, one outcome each.
C24_InOrder ==
    \A r \in 1..MaxRequests :
        /\ (r <= Len(download_requests))
             => \A a \in disk[r] : a.chunk <= download_requests[r].current_chunk
        /\ (Running(r) /\ InChunk(task[r])) =>
             /\ download_requests[r].current_chunk = task[r].chunk_idx
             /\ \A j \in RunChunks(task[r]) : j < task[r].chunk_idx <=> j \in task[r].attempted \ {task[r].chunk_idx}
             /\ task[r].pc = "download" => Len(task[r].outcomes) = task[r].file_idx

\* C24, steps: current_chunk moves only at the head of the chunk loop, to the
\* chunk that starts; a file is fetched only at the loop index of the chunk
\* the store names, and it is the file the planner listed there.
C24_Steps ==
    \A r \in 1..Len(download_requests) :
        /\ download_requests'[r].current_chunk # download_requests[r].current_chunk
             => /\ task[r].pc = "chunk"
                /\ download_requests'[r].current_chunk = task[r].chunk_idx
                /\ disk[r] = disk'[r] \ {ChunkDir(task[r].chunk_idx)}
        /\ Len(task'[r].outcomes) > Len(task[r].outcomes)
             => /\ Len(task'[r].outcomes) = task[r].file_idx + 1
                /\ download_requests[r].current_chunk = task[r].chunk_idx
                /\ disk'[r] \ disk[r] \subseteq {ChunkFile(task[r].chunk_idx,
                                                        FilesAt(task[r])[task[r].file_idx + 1].handle)}

\* C24: chunk i+1 is not started before the delivery attempt of chunk i is
\* over, current_chunk is i before any file of chunk i is fetched, and the
\* files of a chunk are fetched one at a time in the planner's order.
C24_ChunksAndFilesInOrder == []C24_InOrder /\ [][C24_Steps]_vars

\* The second chunk is at its delivery, after the delivery attempt of the
\* first, whose two files were attempted in order.
C24_Witness ==
    \E r \in 1..MaxRequests :
        /\ Running(r) /\ ~ task[r].resume
        /\ task[r].pc = "upload" /\ task[r].chunk_idx = 1 /\ task[r].attempted = {0}
        /\ download_requests[r].current_chunk = 1
        /\ ChunkFile(1, FilesAt(task[r])[1].handle) \in disk[r]

\* ==================================================== the store's contracts
\* The rows of the chunks table for chunk n of request rid.
ChunkRows(table, rid, n) == {c \in table : c.request_id = rid /\ c.chunk_number = n}

\* C25: assign_files_to_chunk with the same file ids and the same chunk
\* number a second time changes nothing: every file keeps the chunk_number
\* the first call gave it, there is one chunk row and no second one, and a
\* chunk row that was there keeps its status and its archive path.
C25_AssignIdempotent ==
    \A rid \in 1..Len(download_requests), n \in 0..(MaxChunkNumber + 1) :
        \A file_ids \in SUBSET (1..Len(file_progress)) :
            LET rows1 == AssignFiles(file_progress, file_ids, n)
                table1 == InsertChunkOrIgnore(chunks_table, rid, n)
                rows2 == AssignFiles(rows1, file_ids, n)
                table2 == InsertChunkOrIgnore(table1, rid, n)
            IN  /\ rows2 = rows1
                /\ \A i \in file_ids : rows2[i].chunk_number = n
                /\ table2 = table1
                /\ Cardinality(ChunkRows(table2, rid, n)) = 1
                /\ chunks_table \subseteq table2

\* Files were assigned to a chunk, and the chunk's row has since been given
\* an archive path and the status completed.
C25_Witness ==
    /\ Len(file_progress) >= 2
    /\ \E c \in chunks_table : c.status = "completed" /\ c.zip_path

\* ------------------------------------- create, get and update of a request
\* The arguments the operations are called with.
UserIds == {11, 12}

ChatIds == {21}

MegaLinks == {"https://mega.nz/folder/a#k"}

FolderNames == {"A", "B"}

\* Partial updates, as kwargs: none, one field, several fields.
FieldUpdates ==
    {<<>>,
     [status |-> "downloading"],
     [current_chunk |-> 1],
     [status |-> "failed", error_message |-> "Cancelled by user"],
     [total_files |-> 3, total_size |-> 6, total_chunks |-> 2]}

\* The row create_request inserts: the given columns, status PENDING, both
\* timestamps, the defaults of the schema for the rest.
RequestRow(user_id, chat_id, mega_link, folder_name, now) ==
    [user_id |-> user_id, chat_id |-> chat_id, mega_link |-> mega_link,
     folder_name |-> folder_name, created_at |-> now, updated_at |-> now] @@ NewRequest

FirstRowid(reqs) == 1

\* cursor.lastrowid of the INSERT: the key is AUTOINCREMENT and no operation
\* deletes a request, so it is the number of rows.
lastrowid(reqs) == Len(reqs)

\* get_request(request_id): the row with that id, if there is one.
get_request(reqs, request_id) ==
    {[id |-> i] @@ reqs[i] : i \in {j \in 1..Len(reqs) : j = request_id}}

UpdateEveryRequest(reqs, request_id, kwargs, now) ==
    IF kwargs = <<>> THEN reqs
    ELSE [i \in 1..Len(reqs) |-> kwargs @@ [updated_at |-> now] @@ reqs[i]]

\* update_request(request_id, **kwargs): nothing without kwargs; otherwise
\* UPDATE download_requests SET <kwargs>, updated_at = now WHERE id = ?
update_request(reqs, request_id, kwargs, now) ==
    IF kwargs = <<>> THEN reqs
    ELSE [i \in 1..Len(reqs) |->
            IF i = request_id THEN kwargs @@ [updated_at |-> now] @@ reqs[i] ELSE reqs[i]]

RequestsInit ==
    /\ PipeInit /\ PlannerIdle
    /\ retry_call = NoRetry /\ upload_call = NoUpload /\ split_call = NoSplit
    /\ store_lock = NoLock /\ folder_call = NoFolderCall
    /\ store_call = NoCall

RequestsUnchanged == UNCHANGED <<plan_vars, retry_call, upload_call, split_call, store_lock,
                                 folder_call, disk, proc_vars,
                                 restarts, stopped_inflight>>

\* The time of the next call.
Now == store_call.now + 1

Q_create_request ==
    /\ Now <= MaxCalls
    /\ Len(download_requests) < MaxStoreRequests
    /\ \E user_id \in UserIds, chat_id \in ChatIds, mega_link \in MegaLinks, folder_name \in FolderNames :
         /\ download_requests' =
              Append(download_requests, RequestRow(user_id, chat_id, mega_link, folder_name, Now))
         /\ store_call' = [op |-> "create_request", now |-> Now,
                           id |-> lastrowid(download_requests'),
                           fields |-> [user_id |-> user_id, chat_id |-> chat_id,
                                       mega_link |-> mega_link, folder_name |-> folder_name],
                           got |-> {},
                           ids |-> store_call.ids \cup {lastrowid(download_requests')}]
    /\ UNCHANGED <<file_progress, chunks_table>>
    /\ RequestsUnchanged

Q_get_request ==
    /\ Now <= MaxCalls
    /\ \E request_id \in 0..(MaxStoreRequests + 1) :
         store_call' = [store_call EXCEPT !.op = "get_request", !.now = Now, !.id = request_id,
                                          !.fields = <<>>,
                                          !.got = get_request(download_requests, request_id)]
    /\ UNCHANGED store_vars
    /\ RequestsUnchanged

Q_update_request ==
    /\ Now <= MaxCalls
    /\ \E request_id \in 1..(MaxStoreRequests + 1), kwargs \in FieldUpdates :
         /\ download_requests' = update_request(download_requests, request_id, kwargs, Now)
         /\ store_call' = [store_call EXCEPT !.op = "update_request", !.now = Now, !.id = request_id,
                                             !.fields = kwargs, !.got = {}]
    /\ UNCHANGED <<file_progress, chunks_table>>
    /\ RequestsUnchanged

\* add_files and assign_files_to_chunk for a request, so that the other
\* tables have rows.
Q_add_files ==
    /\ \E rid \in 1..Len(download_requests) :
         /\ Len(file_progress) + 1 <= MaxRows
         /\ file_progress' = add_files(file_progress, rid, FilesOfSizes(<<1>>))
    /\ UNCHANGED <<download_requests, chunks_table, store_call>>
    /\ RequestsUnchanged

Q_assign_files_to_chunk ==
    /\ \E rid \in 1..Len(download_requests) :
         /\ get_pending_files(file_progress, rid) # {}
         /\ file_progress' = AssignFiles(file_progress, get_pending_files(file_progress, rid), 1)
         /\ chunks_table' = InsertChunkOrIgnore(chunks_table, rid, 1)
    /\ UNCHANGED <<download_requests, store_call>>
    /\ RequestsUnchanged

RequestsNext ==
    \/ Q_create_request
    \/ Q_get_request
    \/ Q_update_request
    \/ Q_add_files
    \/ Q_assign_files_to_chunk

SpecRequests == RequestsInit /\ [][RequestsNext]_vars

\* The call made by the step is operation op.
Called(op) == store_call'.now = store_call.now + 1 /\ store_call'.op = op

\* C26, the call: create_request returns a positive id that no earlier call
\* returned, and get_request of it returns the given owner, chat, link and
\* name with status pending, current_chunk 0 and zero counters.
C26_CreateStep ==
    Called("create_request") =>
        LET id == store_call'.id
            given == store_call'.fields
        IN  /\ id > 0 /\ id \notin store_call.ids
            /\ get_request(download_requests, id) = {}
            /\ \E row \in get_request(download_requests', id) :
                  /\ get_request(download_requests', id) = {row}
                  /\ row.id = id
                  /\ row.user_id = given.user_id /\ row.chat_id = given.chat_id
                  /\ row.mega_link = given.mega_link /\ row.folder_name = given.folder_name
                  /\ row.status = "pending" /\ row.current_chunk = 0
                  /\ row.total_files = 0 /\ row.total_size = 0 /\ row.total_chunks = 0
                  /\ row.downloaded_bytes = 0

\* C26, the store: get_request returns a row exactly for the ids that
\* create_request has returned.
C26_OnlyCreated ==
    \A request_id \in 0..(MaxStoreRequests + 1) :
        (get_request(download_requests, request_id) # {}) <=> (request_id \in store_call.ids)

\* C26: create_request returns a fresh positive id, get_request of it
\* returns the request as given with status pending and zero counters, and
\* get_request of an id never created returns nothing.
C26_CreateThenGet == []C26_OnlyCreated /\ [][C26_CreateStep]_vars

\* Two requests were created and get_request was asked for an id that was
\* never created.
C26_Witness ==
    /\ store_call.op = "get_request" /\ store_call.id = 3 /\ store_call.got = {}
    /\ store_call.ids = {1, 2}
    /\ download_requests[1].folder_name # download_requests[2].folder_name

\* What update_request is to leave for request i: the named fields new, the
\* timestamp stamped, the rest as before; every other request as before.
AsNamed(reqs, request_id, kwargs, now) ==
    [i \in 1..Len(reqs) |->
       IF i # request_id THEN reqs[i]
       ELSE [f \in DOMAIN reqs[i] |->
               IF f \in DOMAIN kwargs THEN kwargs[f]
               ELSE IF f = "updated_at" THEN now
               ELSE reqs[i][f]]]

\* The claim as stated: every update_request, also one that names no field,
\* stamps the modification timestamp.
C27_AsStated ==
    [][Called("update_request")
         => download_requests' = AsNamed(download_requests, store_call'.id, store_call'.fields,
                                         store_call'.now)]_vars

\* C27: update_request(id, fields) with at least one field changes exactly
\* the named fields and the modification timestamp of request id, a following
\* get_request returns them, and every other request, file entry and chunk
\* row is unchanged; with no field it changes nothing, the timestamp included.
C27_UpdateFrame ==
    [][Called("update_request")
         => /\ download_requests' =
                 IF store_call'.fields = <<>> THEN download_requests
                 ELSE AsNamed(download_requests, store_call'.id, store_call'.fields, store_call'.now)
            /\ \A row \in get_request(download_requests', store_call'.id) :
                  \A f \in DOMAIN store_call'.fields : row[f] = store_call'.fields[f]
            /\ UNCHANGED <<file_progress, chunks_table>>]_vars

\* An update of two fields of the first of two requests, with file and chunk
\* rows in the store.
C27_Witness ==
    /\ store_call.op = "update_request" /\ store_call.id = 1
    /\ DOMAIN store_call.fields = {"status", "error_message"}
    /\ Len(download_requests) = 2 /\ download_requests[1].status = "failed"
    /\ download_requests[1].updated_at = store_call.now
    /\ download_requests[1].created_at < store_call.now
    /\ file_progress # <<>> /\ chunks_table # {}

\* ------------------------------------------------ a failure of the store
\* The step is one in which an operation of the store raised in the task of
\* request r.
StoreRaised(r) ==
    \/ task[r].pc \notin {"none", "except"} /\ task'[r].pc = "except" /\ task'[r].raised_at = "store"
    \/ /\ task[r].pc = "mark" /\ task'[r].pc = "download"
       /\ task'[r].outcomes[Len(task'[r].outcomes)] = "store_error_after_fetch"

\* The task of r is in "except Exception as e", which ends it: no further
\* file or chunk is processed.
Aborted(r) == task'[r].pc = "except"

StoreFailureOutsideLoopAborts ==
    [][\A r \in 1..MaxRequests :
          /\ (StoreRaised(r) /\ task[r].pc # "mark") => Aborted(r)
          /\ task[r].pc = "except" => task'[r].pc \in {"except", "notice", "none"}
          /\ task[r].pc = "notice" => task'[r].pc \in {"notice", "none"}
          /\ (task[r].pc = "except" /\ task'[r].pc = "notice")
                => download_requests'[r].status = "failed"]_vars

\* ------------------------------------------------ the start of a download
\* The texts submitted as links, character by character. With a folder id
\* and a key: the two links of the test, the old form on mega.co.nz, a link
\* of another site that holds a folder link. Without: "https://google.com",
\* "not a link", the empty text, folder links without a folder id, without a
\* key, with a key that starts with "/", a file link, and an old-form link
\* without a key.
LinksWithFolderAndKey ==
    {<<"h", "t", "t", "p", "s", ":", "/", "/", "m", "e", "g", "a", ".", "n", "z", "/", "f", "o", "l", "d", "e", "r", "/", "A", "#", "k">>,
     <<"m", "e", "g", "a", ".", "n", "z", "/", "#", "F", "!", "A", "!", "k">>,
     <<"m", "e", "g", "a", ".", "c", "o", ".", "n", "z", "/", "#", "F", "!", "A", "!", "k">>,
     <<"x", ".", "y", "/", "?", "m", "e", "g", "a", ".", "n", "z", "/", "f", "o", "l", "d", "e", "r", "/", "A", "#", "k">>}

OtherTexts ==
    {<<"h", "t", "t", "p", "s", ":", "/", "/", "g", "o", "o", "g", "l", "e", ".", "c", "o", "m">>,
     <<"n", "o", "t", " ", "a", " ", "l", "i", "n", "k">>,
     <<>>,
     <<"m", "e", "g", "a", ".", "n", "z", "/", "f", "o", "l", "d", "e", "r", "/", "#", "k">>,
     <<"m", "e", "g", "a", ".", "n", "z", "/", "f", "o", "l", "d", "e", "r", "/", "A", "#">>,
     <<"m", "e", "g", "a", ".", "n", "z", "/", "f", "o", "l", "d", "e", "r", "/", "A", "#", "/">>,
     <<"m", "e", "g", "a", ".", "n", "z", "/", "f", "i", "l", "e", "/", "A", "#", "k">>,
     <<"m", "e", "g", "a", ".", "n", "z", "/", "#", "F", "!", "A">>}

SubmittedLinks == LinksWithFolderAndKey \cup OtherTexts

\* The literal parts of the patterns of validate_mega_link and the character
\* that ends the folder id: mega\.nz/folder/[^#]+#[^/]+,
\* mega\.nz/#F![^!]+![^/]+, mega\.co\.nz/#F![^!]+![^/]+
patterns ==
    {[literal |-> <<"m", "e", "g", "a", ".", "n", "z", "/", "f", "o", "l", "d", "e", "r", "/">>,
      sep |-> "#"],
     [literal |-> <<"m", "e", "g", "a", ".", "n", "z", "/", "#", "F", "!">>, sep |-> "!"],
     [literal |-> <<"m", "e", "g", "a", ".", "c", "o", ".", "n", "z", "/", "#", "F", "!">>,
      sep |-> "!"]}

\* The literal stands in the link from position i on.
LiteralAt(link, i, literal) ==
    /\ i + Len(literal) - 1 <= Len(link)
    /\ \A k \in 1..Len(literal) : link[i + k - 1] = literal[k]

\* re.search(pattern, link): somewhere in the link the literal, then one or
\* more characters that are not sep, then sep, then a character that is not /.
Search(pattern, link) ==
    \E i \in 1..Len(link), j \in 1..Len(link) :
        /\ LiteralAt(link, i, pattern.literal)
        /\ j > i + Len(pattern.literal)
        /\ \A k \in (i + Len(pattern.literal))..(j - 1) : link[k] # pattern.sep
        /\ link[j] = pattern.sep
        /\ j + 1 <= Len(link) /\ link[j + 1] # "/"

AcceptEveryLink(link) == TRUE

\* validate_mega_link(link): one of the patterns is found in the link.
validate_mega_link(link) == \E pattern \in patterns : Search(pattern, link)

\* The submitted texts validate_mega_link accepts.
AcceptedLinks == {link \in SubmittedLinks : validate_mega_link(link)}

\* What get_folder_info answers: the files of the folder, none for a folder
\* without files, or an error.
FolderListings == {<<>>, FilesOfSizes(<<1>>), FilesOfSizes(<<3, 1, 2>>)}

EnumerationErrors == {"MegaDownloadError", "Exception"}

\* The record of the last _start_download: the link, how far it went, what
\* get_folder_info answered, the request it created.
Submitted(link, outcome, answer, rid) ==
    [pc |-> "idle", rid |-> rid, link |-> link, outcome |-> outcome, answer |-> answer]

\* create_request, update_request with the totals, add_files.
StartRows(rid, files) ==
    /\ download_requests' =
         Append(download_requests,
                [NewRequest EXCEPT !.total_files = Len(files),
                                   !.total_size = SumSeq(Sizes(files)),
                                   !.total_chunks = Max(1, CeilDiv(SumSeq(Sizes(files)),
                                                                   chunk_size_bytes))])
    /\ file_progress' = add_files(file_progress, rid, files)

SubmitUnchanged == UNCHANGED <<plan_vars, unit_vars, disk, shutdown_iter, chunks_table,
                               stopped_inflight, proc, restarts, chunk_managers>>

NothingCreated == UNCHANGED <<download_requests, file_progress, task, active_downloads,
                              progress_messages>>

\* if not validate_mega_link(mega_link): reply and return.
Submit_InvalidLink ==
    /\ proc = "up"
    /\ \E link \in SubmittedLinks :
         /\ link \notin AcceptedLinks
         /\ handler' = Submitted(link, "invalid", <<>>, 0)
    /\ NothingCreated
    /\ SubmitUnchanged

\* The limit of concurrent downloads is reached: reply and return.
Submit_LimitReached ==
    /\ proc = "up"
    /\ LimitReached
    /\ \E link \in SubmittedLinks :
         /\ link \in AcceptedLinks
         /\ handler' = Submitted(link, "limit", <<>>, 0)
    /\ NothingCreated
    /\ SubmitUnchanged

\* get_folder_info raises: "except MegaDownloadError" or "except Exception"
\* edits the status message.
Submit_EnumerationFails ==
    /\ proc = "up"
    /\ ~ LimitReached
    /\ \E link \in SubmittedLinks, error \in EnumerationErrors :
         /\ link \in AcceptedLinks
         /\ handler' = Submitted(link, error, <<>>, 0)
    /\ NothingCreated
    /\ SubmitUnchanged

\* if folder_info.file_count == 0: edit the status message and return.
Submit_EmptyFolder ==
    /\ proc = "up"
    /\ ~ LimitReached
    /\ \E link \in SubmittedLinks, files \in FolderListings :
         /\ link \in AcceptedLinks
         /\ Len(files) = 0
         /\ handler' = Submitted(link, "empty", files, 0)
    /\ NothingCreated
    /\ SubmitUnchanged

\* The folder has files: the rows are written, the status message edited and
\* the task created.
Submit_Start ==
    /\ proc = "up"
    /\ ~ LimitReached
    /\ Len(download_requests) < MaxCapRequests
    /\ \E link \in SubmittedLinks, files \in FolderListings :
         /\ link \in AcceptedLinks
         /\ ~ (Len(files) = 0)
         /\ Len(file_progress) + Len(files) <= MaxCapRequests + 2
         /\ LET rid == Len(download_requests) + 1
            IN  /\ StartRows(rid, files)
                /\ progress_messages' = progress_messages \cup {rid}
                /\ active_downloads' = active_downloads \cup {rid}
                /\ task' = [task EXCEPT ![rid] = [NoTask EXCEPT !.pc = "created"]]
                /\ handler' = Submitted(link, "started", files, rid)
    /\ SubmitUnchanged

\* The same, but the edit of the status message raises after the rows were
\* written: "except Exception" reports it and no task is created.
Submit_StartRaises ==
    /\ proc = "up"
    /\ ~ LimitReached
    /\ Len(download_requests) < MaxCapRequests
    /\ \E link \in SubmittedLinks, files \in FolderListings :
         /\ link \in AcceptedLinks
         /\ ~ (Len(files) = 0)
         /\ Len(file_progress) + Len(files) <= MaxCapRequests + 2
         /\ LET rid == Len(download_requests) + 1
            IN  /\ StartRows(rid, files)
                /\ handler' = Submitted(link, "edit_text raised", files, rid)
    /\ UNCHANGED <<task, active_downloads, progress_messages>>
    /\ SubmitUnchanged

SubmitNext ==
    \/ Submit_InvalidLink
    \/ Submit_LimitReached
    \/ Submit_EnumerationFails
    \/ Submit_EmptyFolder
    \/ Submit_Start
    \/ Submit_StartRaises
    \/ \E r \in 1..MaxCapRequests :
         \/ Cap_TaskStep(r)
         \/ Cap_TaskFails(r)

SpecSubmit == CapInit /\ [][SubmitNext]_vars

\* The step creates a request row, a file entry or a task.
Creates ==
    \/ Len(download_requests') > Len(download_requests)
    \/ Len(file_progress') > Len(file_progress)
    \/ \E r \in 1..MaxCapRequests : task[r].pc = "none" /\ task'[r].pc # "none"
    \/ active_downloads' \ active_downloads # {}

\* The step is a _start_download that met a malformed link, a failed
\* enumeration or an empty folder.
Rejected ==
    /\ handler' # handler
    /\ \/ handler'.link \notin LinksWithFolderAndKey
       \/ handler'.outcome \in EnumerationErrors
       \/ handler'.outcome \notin EnumerationErrors /\ Len(handler'.answer) = 0

\* C29: a request row is created only for a link that passes validation and
\* only after the enumeration of the folder answered with at least one file;
\* for a malformed link, a failed enumeration or an empty folder no request
\* row, no file entry and no task is created.
C29_CreatedOnlyForListedFolder ==
    [][/\ Creates => /\ handler'.link \in LinksWithFolderAndKey
                     /\ handler'.outcome \notin EnumerationErrors
                     /\ Len(handler'.answer) >= 1
                     /\ Len(file_progress') - Len(file_progress) = Len(handler'.answer)
       /\ Rejected => NothingCreated]_vars

\* A link that holds no folder link, a folder without files and a failed
\* enumeration were turned down with a request of an earlier valid link in
\* the store and nothing more.
C29_Witness ==
    /\ handler.pc = "idle" /\ handler.rid = 0
    /\ handler # IdleHandler
    /\ handler.outcome \in {"invalid", "empty", "MegaDownloadError"}
    /\ Len(download_requests) = 1 /\ Len(file_progress) = 3

\* ------------------------------------------------ split_zip_for_telegram
\* The width of the part number in the name: f".zip.part{part_num:03d}"
PartDigits == 3

\* An archive of n bytes.
ArchiveOf(n) == [i \in 1..n |-> i % 256]

\* The bytes of an archive that needs one part more than the numbers of
\* PartDigits digits, split with max_size = 1.
LongArchive == 10 ^ PartDigits + 1

\* The calls: the short archives with every max_size, and the long one.
SplitCalls ==
    {[archive |-> ArchiveOf(n), max_size |-> m] : n \in 0..MaxArchive, m \in 1..MaxPartSize}
        \cup {[archive |-> ArchiveOf(LongArchive), max_size |-> 1]}

\* The decimal digits of n.
DigitCount(n) == CHOOSE d \in 1..(n + 1) : n < 10 ^ d /\ (d = 1 \/ n >= 10 ^ (d - 1))

\* f"{n:0{width}d}": the digits of n, with zeros in front up to width; a
\* number with more digits is written in full.
Format(n, width) ==
    LET w == Max(DigitCount(n), width)
    IN  [i \in 1..w |-> (n \div (10 ^ (w - i))) % 10]

\* The name of the archive, and zip_path.with_suffix(".zip.partNNN"): the
\* suffix .zip is replaced.
ZipPath == [suffix |-> ".zip", digits |-> <<>>]

PartPath(part_num) == [suffix |-> ".zip.part", digits |-> Format(part_num, PartDigits)]

SplitInit ==
    /\ PipeInit /\ PlannerIdle
    /\ retry_call = NoRetry /\ upload_call = NoUpload /\ store_call = NoCall
    /\ split_call = NoSplit
    /\ store_lock = NoLock /\ folder_call = NoFolderCall

SplitUnchanged ==
    UNCHANGED <<plan_vars, retry_call, upload_call, store_call, store_lock, folder_call, pipe_vars>>

\* chunk = await f.read(max_size)
ReadChunk(call) ==
    SubSeq(call.archive, call.offset + 1,
           IF call.offset + call.max_size <= Len(call.archive)
           THEN call.offset + call.max_size ELSE Len(call.archive))

\* split_zip_for_telegram(zip_path, max_size) is called.
P_Call ==
    /\ split_call.pc = "idle"
    /\ \E call \in SplitCalls :
         split_call' = [NoSplit EXCEPT !.pc = "stat", !.archive = call.archive,
                                       !.max_size = call.max_size]
    /\ SplitUnchanged

\* if file_size <= max_size: return [zip_path]
P_Fits ==
    /\ split_call.pc = "stat"
    /\ Len(split_call.archive) <= split_call.max_size
    /\ split_call' = [split_call EXCEPT !.pc = "returned", !.returned = <<ZipPath>>]
    /\ SplitUnchanged

\* The archive is opened for the loop.
P_Open ==
    /\ split_call.pc = "stat"
    /\ ~ (Len(split_call.archive) <= split_call.max_size)
    /\ split_call' = [split_call EXCEPT !.pc = "read"]
    /\ SplitUnchanged

\* One pass of the loop: the chunk read is written to the next part file.
P_WritePart ==
    /\ split_call.pc = "read"
    /\ ReadChunk(split_call) # <<>>
    /\ split_call' =
         [split_call EXCEPT
            !.folder = Append(@, [path |-> PartPath(split_call.part_num),
                                  bytes |-> ReadChunk(split_call)]),
            !.offset = @ + Len(ReadChunk(split_call)),
            !.part_num = @ + 1]
    /\ SplitUnchanged

\* if not chunk: break; return parts
P_Return ==
    /\ split_call.pc = "read"
    /\ ReadChunk(split_call) = <<>>
    /\ split_call' = [split_call EXCEPT
                        !.pc = "returned",
                        !.returned = [k \in 1..Len(split_call.folder) |-> split_call.folder[k].path]]
    /\ SplitUnchanged

SplitNext == P_Call \/ P_Fits \/ P_Open \/ P_WritePart \/ P_Return

SpecSplit == SplitInit /\ [][SplitNext]_vars

\* Name a comes before name b in lexical order: at the first position where
\* they differ a has the smaller character, or a is a proper prefix of b.
LexLess(a, b) ==
    \E i \in 1..Len(b) :
        /\ \A k \in 1..(i - 1) : k <= Len(a) /\ a[k] = b[k]
        /\ \/ i = Len(a) + 1
           \/ i <= Len(a) /\ a[i] < b[i]

\* The bytes in the parts whose names come before the name of the k-th
\* written part in lexical order.
BytesBefore(folder, k) ==
    Cardinality(UNION {{<<j, b>> : b \in 1..Len(folder[j].bytes)} :
                         j \in {q \in 1..Len(folder) :
                                  LexLess(folder[q].path.digits, folder[k].path.digits)}})

\* The bytes in all the parts.
BytesInParts(folder) ==
    Cardinality(UNION {{<<j, b>> : b \in 1..Len(folder[j].bytes)} : j \in 1..Len(folder)})

\* The parts, joined in lexical order of their names, are the archive: each
\* part holds the bytes of the archive that follow those of the parts before
\* it in that order.
JoinedIsArchive(call) ==
    /\ BytesInParts(call.folder) = Len(call.archive)
    /\ \A k \in 1..Len(call.folder) :
          LET before == BytesBefore(call.folder, k)
          IN  call.folder[k].bytes =
                 SubSeq(call.archive, before + 1, before + Len(call.folder[k].bytes))

\* The call has returned for an archive larger than max_size.
SplitReturned(call) == call.pc = "returned" /\ Len(call.archive) > call.max_size

\* The parts returned are the files written, none empty, none above max_size.
PartsWithinMaxSize(call) ==
    /\ Len(call.returned) = Len(call.folder)
    /\ \A k \in 1..Len(call.folder) :
          /\ call.returned[k] = call.folder[k].path
          /\ Len(call.folder[k].bytes) \in 1..call.max_size
          /\ \A j \in 1..Len(call.folder) : j # k => call.folder[j].path # call.folder[k].path

\* An archive that fits is returned itself and nothing is written.
FitsReturnsArchive(call) ==
    (call.pc = "returned" /\ Len(call.archive) <= call.max_size)
        => call.returned = <<ZipPath>> /\ call.folder = <<>>

\* C30: for an archive larger than max_size the parts returned are non-empty,
\* each of at most max_size bytes, and joined in lexical order of their names
\* they are the archive, for any number of parts; an archive that fits is
\* returned itself and nothing is written.
C30_PartsJoinToArchive ==
    /\ FitsReturnsArchive(split_call)
    /\ SplitReturned(split_call)
         => PartsWithinMaxSize(split_call) /\ JoinedIsArchive(split_call)

\* The same for the archives that need no more parts than the numbers of
\* PartDigits digits.
JoinToArchiveUpToPartDigits ==
    /\ FitsReturnsArchive(split_call)
    /\ (SplitReturned(split_call) /\ Len(split_call.folder) <= 10 ^ PartDigits)
         => PartsWithinMaxSize(split_call) /\ JoinedIsArchive(split_call)

\* The sizes are as stated for every number of parts.
PartSizesAlways ==
    SplitReturned(split_call) => PartsWithinMaxSize(split_call)

\* ------------------------------------------ the stored assignment of files
\* save_chunk_assignments has returned in the task of r.
Assigned(t) ==
    \/ t.pc = "assign" /\ t.chunk_idx = Len(t.plan)
    \/ t.pc \in {"chunk", "download", "mark", "set_uploading", "upload", "after_upload",
                 "next", "final"}

\* The sum of the sizes of the stored FileEntries of request r whose
\* chunk_number is n.
StoredSize(r, n) ==
    SumSeq([k \in 1..Len(file_progress) |->
              IF file_progress[k].request_id = r /\ file_progress[k].chunk_number = n
              THEN file_progress[k].file_size ELSE 0])

\* C31: after planning and save_chunk_assignments, for every chunk of the
\* plan the sizes of the stored FileEntries with that chunk_number add up to
\* the total_size of the planned chunk, on a first run and after a resume.
C31_StoredSizeIsChunkSize ==
    \A r \in 1..MaxRequests :
        (task[r].pc # "none" /\ Assigned(task[r]))
            => \A k \in 1..Len(task[r].plan) :
                  StoredSize(r, task[r].plan[k].chunk_number) = task[r].plan[k].total_size

\* The same for the runs that are not resumed.
StoredSizeOnFirstRun ==
    \A r \in 1..MaxRequests :
        (task[r].pc # "none" /\ Assigned(task[r]) /\ ~ task[r].resume)
            => \A k \in 1..Len(task[r].plan) :
                  StoredSize(r, task[r].plan[k].chunk_number) = task[r].plan[k].total_size

\* The same for the resumed runs of a request whose file rows were written.
StoredSizeWithRows ==
    \A r \in 1..MaxRequests :
        (task[r].pc # "none" /\ Assigned(task[r]) /\ RowsOf(r) # {})
            => \A k \in 1..Len(task[r].plan) :
                  StoredSize(r, task[r].plan[k].chunk_number) = task[r].plan[k].total_size

\* ------------------------------------------------------- the store's lock
\* Caller 1 is the command handler the application runs, the others are
\* request tasks, the task c of request c - 1.
Callers == 1..MaxCallers

TaskCallers == Callers \ {1}

RequestOf(c) == c - 1

IdleOp == [pc |-> "idle", op |-> "none", step |-> 0, rid |-> 0, n |-> 0, cancelled |-> FALSE]

\* The statements each operation awaits inside "async with self._lock".
Statements(op) ==
    IF op = "assign_files_to_chunk" THEN <<"UPDATE file_progress", "INSERT OR IGNORE chunks", "commit">>
    ELSE IF op = "update_request" THEN <<"UPDATE download_requests", "commit">>
    ELSE <<"SELECT file_progress", "SELECT chunks">>

\* The store after _start_download has run for the request of every task.
RECURSIVE FilesOfRequests(_)
FilesOfRequests(n) ==
    IF n = 0 THEN <<>> ELSE add_files(FilesOfRequests(n - 1), n, FolderFiles)

LockInit ==
    /\ PlannerIdle
    /\ retry_call = NoRetry /\ upload_call = NoUpload /\ store_call = NoCall
    /\ split_call = NoSplit /\ folder_call = NoFolderCall
    /\ proc = "up"
    /\ shutdown_iter = NoShutdown
    /\ handler = IdleHandler
    /\ task = [r \in 1..MaxRequests |-> NoTask]
    /\ active_downloads = {}
    /\ progress_messages = {}
    /\ chunk_managers = {}
    /\ download_requests = [r \in 1..(MaxCallers - 1) |-> NewRequest]
    /\ file_progress = FilesOfRequests(MaxCallers - 1)
    /\ chunks_table = {}
    /\ disk = [r \in 1..MaxRequests |-> {}]
    /\ restarts = 0
    /\ stopped_inflight = {}
    /\ store_lock = [NoLock EXCEPT !.ops = [c \in Callers |-> IdleOp]]

LockUnchanged ==
    UNCHANGED <<plan_vars, retry_call, upload_call, store_call, split_call, folder_call,
                proc_vars, disk, restarts, stopped_inflight>>

AcquireUnlocked(lock, c) ==
    [lock EXCEPT !.locked = TRUE, !.ops[c].pc = "in"]

\* Lock.acquire(): taken at once when the lock is free and nobody waits for
\* it, otherwise the caller joins the waiters.
acquire(lock, c) ==
    IF ~ lock.locked /\ lock.waiters = <<>>
    THEN [lock EXCEPT !.locked = TRUE, !.ops[c].pc = "in"]
    ELSE [lock EXCEPT !.waiters = Append(@, c), !.ops[c].pc = "waiting"]

\* Lock.release(): the first waiter is woken and holds the lock next.
release(lock) ==
    IF lock.waiters = <<>>
    THEN [lock EXCEPT !.locked = FALSE]
    ELSE [lock EXCEPT !.waiters = Tail(@), !.ops[Head(lock.waiters)].pc = "in"]

\* The plan of the folder, and the chunk with chunk_number n.
FolderPlan == organize_files_into_chunks(FolderFiles, chunk_size_bytes)

\* What a statement does to the tables.
Executed(c, stmt) ==
    LET o == store_lock.ops[c]
    IN  /\ file_progress' =
             IF stmt = "UPDATE file_progress"
             THEN AssignFiles(file_progress, ChunkFileIds(file_progress, o.rid, FolderPlan[o.n + 1]), o.n)
             ELSE file_progress
        /\ chunks_table' =
             IF stmt = "INSERT OR IGNORE chunks"
             THEN InsertChunkOrIgnore(chunks_table, o.rid, o.n)
             ELSE chunks_table
        /\ download_requests' =
             IF stmt = "UPDATE download_requests"
             THEN IF o.cancelled THEN SetFailed(download_requests, o.rid, "Download cancelled")
                  ELSE IF c = 1 THEN SetFailed(download_requests, o.rid, "Cancelled by user")
                  ELSE SetStatus(download_requests, o.rid, "downloading")
             ELSE download_requests

\* The assignments whose UPDATE has changed the chunk_number of a file row and
\* whose INSERT has not run.
HalfDone(half, c, stmt) ==
    LET o == store_lock.ops[c]
    IN  IF stmt = "UPDATE file_progress"
        THEN IF AssignFiles(file_progress,
                            ChunkFileIds(file_progress, o.rid, FolderPlan[o.n + 1]), o.n) # file_progress
             THEN half \cup {<<o.rid, o.n>>} ELSE half
        ELSE IF stmt = "INSERT OR IGNORE chunks" THEN half \ {<<o.rid, o.n>>}
        ELSE half

\* A caller calls an operation of the store: the command handler for any
\* request, a task for its own; a cancelled task makes the update_request of
\* its handler and nothing else.
L_Call(c) ==
    /\ store_lock.ops[c].pc = "idle"
    /\ \E op \in {"assign_files_to_chunk", "update_request", "get_download_stats"},
          rid \in 1..(MaxCallers - 1), n \in 0..(Len(FolderPlan) - 1) :
         /\ c = 1 => op # "assign_files_to_chunk" /\ n = 0
         /\ c # 1 => rid = RequestOf(c)
         /\ op # "assign_files_to_chunk" => n = 0
         /\ store_lock.ops[c].cancelled => op = "update_request"
         /\ store_lock' = acquire([store_lock EXCEPT !.ops[c].op = op, !.ops[c].rid = rid,
                                                     !.ops[c].n = n, !.ops[c].step = 0], c)
    /\ UNCHANGED store_vars
    /\ LockUnchanged

\* The holder's next statement runs; after the last one the operation
\* returns and "async with" releases the lock.
L_Statement(c) ==
    /\ store_lock.ops[c].pc = "in"
    /\ LET o == store_lock.ops[c]
           stmt == Statements(o.op)[o.step + 1]
           half == HalfDone(store_lock.half_done, c, stmt)
       IN  /\ Executed(c, stmt)
           /\ store_lock' =
                IF o.step + 1 < Len(Statements(o.op))
                THEN [store_lock EXCEPT !.ops[c].step = @ + 1, !.half_done = half]
                ELSE release([store_lock EXCEPT
                                !.ops[c] = IF o.cancelled
                                           THEN [IdleOp EXCEPT !.pc = "ended", !.cancelled = TRUE]
                                           ELSE IdleOp,
                                !.half_done = half])
    /\ LockUnchanged

\* task.cancel() reaches a task inside an operation: a waiter leaves the
\* queue; the holder gets the CancelledError at the statement it awaits,
\* which the connection's thread has run or not, and "async with" releases
\* the lock with the statements after it never issued.
L_Cancel(c) ==
    /\ c \in TaskCallers
    /\ store_lock.ops[c].pc \in {"waiting", "in"}
    /\ ~ store_lock.ops[c].cancelled
    /\ IF store_lock.ops[c].pc = "waiting"
       THEN /\ store_lock' =
                 [store_lock EXCEPT
                    !.waiters = SelectSeq(@, LAMBDA w : w # c),
                    !.ops[c] = [IdleOp EXCEPT !.cancelled = TRUE, !.rid = RequestOf(c)]]
            /\ UNCHANGED store_vars
       ELSE LET o == store_lock.ops[c]
                stmt == Statements(o.op)[o.step + 1]
            IN  \E ran \in BOOLEAN :
                  /\ IF ran THEN Executed(c, stmt) ELSE UNCHANGED store_vars
                  /\ store_lock' =
                       release([store_lock EXCEPT
                                  !.ops[c] = [IdleOp EXCEPT !.cancelled = TRUE, !.rid = RequestOf(c)],
                                  !.half_done = IF ran THEN HalfDone(@, c, stmt) ELSE @])
    /\ LockUnchanged

LockNext == \E c \in Callers : L_Call(c) \/ L_Statement(c) \/ L_Cancel(c)

SpecLock == LockInit /\ [][LockNext]_vars

\* The callers inside the read/write section of an operation.
Inside == {c \in Callers : store_lock.ops[c].pc = "in"}

\* Caller c runs a statement of its operation in the step.
Runs(c) ==
    /\ store_lock.ops[c].pc = "in"
    /\ store_lock'.ops[c] # store_lock.ops[c]
    /\ ~ store_lock'.ops[c].cancelled \/ store_lock.ops[c].cancelled

\* At most one operation is inside its section.
AtMostOneInside == Cardinality(Inside) <= 1 /\ (Inside # {} => store_lock.locked)

\* A statement runs only when no assignment of another operation is half
\* done.
NoHalfDoneSeen ==
    \A c \in Callers :
        Runs(c) => \A h \in store_lock.half_done :
                      /\ store_lock.ops[c].op = "assign_files_to_chunk"
                      /\ h = <<store_lock.ops[c].rid, store_lock.ops[c].n>>

\* C32: the operations of the store exclude each other, at most one is
\* inside its read/write section at a time, and no operation runs while the
\* file assignment of an assign_files_to_chunk is written and its chunk row
\* is not.
C32_StoreOperationsExclusive == []AtMostOneInside /\ [][NoHalfDoneSeen]_vars

\* The same for the assignments of the operations that are still under way:
\* the lock keeps every other operation out until they return.
ExclusiveWhileUnderWay ==
    /\ []AtMostOneInside
    /\ [][\A c \in Callers :
             Runs(c) => \A h \in store_lock.half_done :
                           \A d \in Callers \ {c} :
                              ~ (/\ store_lock.ops[d].pc = "in"
                                 /\ store_lock.ops[d].op = "assign_files_to_chunk"
                                 /\ h = <<store_lock.ops[d].rid, store_lock.ops[d].n>>)]_vars

\* ================== the request folder, cmd_cancel and the worker threads
\* One request whose task is in _process_download with its chunk manager
\* registered, at the grain of the folder: the steps of the task on the event
\* loop, the steps of cmd_cancel, and the steps of the functions the two hand
\* to executor threads (the fetch of a file, create_zip, shutil.rmtree).
\* task.cancel() does not stop a function that runs on a thread.
IdleThread == [state |-> "idle", chunk |-> 0, handle |-> 0, written |-> {}, raced |-> FALSE]

FolderTask ==
    [lock |-> "free", pc |-> "chunk_path", chunk |-> 0, file |-> 0, cancelling |-> FALSE,
     cmd |-> "idle", raised |-> "none", cleaned |-> FALSE,
     download |-> IdleThread, zip |-> IdleThread,
     rmtree |-> [o \in {"task", "cancel"} |-> IdleThread]]

FolderInit ==
    /\ PlannerIdle
    /\ retry_call = NoRetry /\ upload_call = NoUpload /\ store_call = NoCall
    /\ split_call = NoSplit /\ store_lock = NoLock
    /\ proc = "up" /\ shutdown_iter = NoShutdown /\ handler = IdleHandler
    /\ task = [r \in 1..MaxRequests |-> NoTask]
    /\ active_downloads = {1} /\ progress_messages = {1} /\ chunk_managers = {1}
    /\ download_requests = <<[NewRequest EXCEPT !.status = "downloading"]>>
    /\ file_progress = add_files(<<>>, 1, FolderFiles)
    /\ chunks_table = {}
    /\ disk = [r \in 1..MaxRequests |-> {}]
    /\ restarts = 0 /\ stopped_inflight = {}
    /\ folder_call = FolderTask

FolderUnchanged ==
    UNCHANGED <<plan_vars, retry_call, upload_call, store_call, split_call, store_lock,
                proc, shutdown_iter, handler, task, file_progress, chunks_table,
                restarts, stopped_inflight>>

\* The task of the request runs a step: no CancelledError is waiting for it.
FolderRunning(pc) == folder_call.pc = pc /\ ~ folder_call.cancelling

\* self.request_folder.exists()
FolderExists == disk[1] # {}

\* The files of the chunk the task is at.
FolderChunk == FolderPlan[folder_call.chunk + 1].files

\* A function on a thread writes while an rmtree is under way: the rmtree has
\* raced with the write.
Raced(f) ==
    [f EXCEPT !.rmtree = [o \in {"task", "cancel"} |->
                            IF f.rmtree[o].state = "running"
                            THEN [f.rmtree[o] EXCEPT !.raced = TRUE] ELSE f.rmtree[o]]]

\* get_chunk_download_path: chunk_path.mkdir(parents=True, exist_ok=True)
D_ChunkPath ==
    /\ FolderRunning("chunk_path") /\ folder_call.chunk < Len(FolderPlan)
    /\ disk' = [disk EXCEPT ![1] = @ \cup {ChunkDir(folder_call.chunk)}]
    /\ folder_call' = [folder_call EXCEPT !.pc = "download", !.file = 0]
    /\ UNCHANGED <<active_downloads, progress_messages, chunk_managers, download_requests>>
    /\ FolderUnchanged

\* download_file: _download_file_sync is handed to the executor.
D_DownloadStart ==
    /\ FolderRunning("download") /\ folder_call.file < Len(FolderChunk)
    /\ folder_call' = [folder_call EXCEPT
                         !.pc = "await_download",
                         !.download = [IdleThread EXCEPT
                                         !.state = "running", !.chunk = folder_call.chunk,
                                         !.handle = FolderChunk[folder_call.file + 1].handle]]
    /\ UNCHANGED <<disk, active_downloads, progress_messages, chunk_managers, download_requests>>
    /\ FolderUnchanged

\* The thread of _download_file_sync: the fetch fails, or the file is moved
\* to dest_path, which needs the chunk directory to be there.
W_Download ==
    /\ folder_call.download.state = "running"
    /\ \E ok \in BOOLEAN :
         LET lands == ok /\ ChunkDir(folder_call.download.chunk) \in disk[1]
         IN  /\ disk' = IF lands
                        THEN [disk EXCEPT ![1] = @ \cup {ChunkFile(folder_call.download.chunk,
                                                                   folder_call.download.handle)}]
                        ELSE disk
             /\ folder_call' =
                  [(IF lands THEN Raced(folder_call) ELSE folder_call) EXCEPT !.download.state = "done"]
    /\ UNCHANGED <<active_downloads, progress_messages, chunk_managers, download_requests>>
    /\ FolderUnchanged

\* The await of download_file ends (it returns or raises); the loop goes on
\* with the next file.
D_DownloadDone ==
    /\ FolderRunning("await_download") /\ folder_call.download.state = "done"
    /\ folder_call' = [folder_call EXCEPT !.pc = "download", !.file = @ + 1,
                                          !.download = IdleThread]
    /\ UNCHANGED <<disk, active_downloads, progress_messages, chunk_managers, download_requests>>
    /\ FolderUnchanged

\* create_chunk_zip: chunk_path exists, create_zip is handed to the executor.
D_ZipStart ==
    /\ FolderRunning("download") /\ folder_call.file = Len(FolderChunk)
    /\ ChunkDir(folder_call.chunk) \in disk[1]
    /\ folder_call' = [folder_call EXCEPT
                         !.pc = "await_zip",
                         !.zip = [IdleThread EXCEPT !.state = "queued", !.chunk = folder_call.chunk]]
    /\ UNCHANGED <<disk, active_downloads, progress_messages, chunk_managers, download_requests>>
    /\ FolderUnchanged

\* The thread of create_zip: zipfile.ZipFile(zip_path, 'w') creates the
\* archive in the request folder, or fails when the folder is gone.
W_ZipOpen ==
    /\ folder_call.zip.state = "queued"
    /\ IF FolderExists
       THEN /\ disk' = [disk EXCEPT ![1] = @ \cup {ChunkZip(folder_call.zip.chunk)}]
            /\ folder_call' = [Raced(folder_call) EXCEPT !.zip.state = "open"]
       ELSE /\ disk' = disk
            /\ folder_call' = [folder_call EXCEPT !.zip.state = "done"]
    /\ UNCHANGED <<active_downloads, progress_messages, chunk_managers, download_requests>>
    /\ FolderUnchanged

\* The files of the chunk directory create_zip has not written yet.
ToZip ==
    {h \in 1..Len(FolderFiles) :
        /\ ChunkFile(folder_call.zip.chunk, h) \in disk[1]
        /\ h \notin folder_call.zip.written}

\* The archive create_zip writes is still an entry of the request folder.
ZipLinked == ChunkZip(folder_call.zip.chunk) \in disk[1]

\* zf.write(file_path, arcname) for one file of the chunk directory.
W_ZipWrite ==
    /\ folder_call.zip.state = "open"
    /\ \E h \in ToZip :
         folder_call' = [(IF ZipLinked THEN Raced(folder_call) ELSE folder_call) EXCEPT
                           !.zip.written = @ \cup {h}]
    /\ UNCHANGED <<disk, active_downloads, progress_messages, chunk_managers, download_requests>>
    /\ FolderUnchanged

\* The with block of create_zip ends: the archive is closed.
W_ZipClose ==
    /\ folder_call.zip.state = "open" /\ ToZip = {}
    /\ folder_call' = [folder_call EXCEPT !.zip.state = "done"]
    /\ UNCHANGED <<disk, active_downloads, progress_messages, chunk_managers, download_requests>>
    /\ FolderUnchanged

\* The await of create_zip ends; UPLOADING is written and upload_chunk
\* returns.
D_Upload ==
    /\ FolderRunning("await_zip") /\ folder_call.zip.state = "done"
    /\ download_requests' = SetStatus(download_requests, 1, "uploading")
    /\ \E ok \in BOOLEAN :
         folder_call' = [folder_call EXCEPT !.pc = IF ok THEN "cleanup_chunk" ELSE "next",
                                            !.zip = IdleThread]
    /\ UNCHANGED <<disk, active_downloads, progress_messages, chunk_managers>>
    /\ FolderUnchanged

\* cleanup_chunk: under self._lock, shutil.rmtree(chunk_path) is handed to
\* the executor.
D_CleanupChunk ==
    /\ FolderRunning("cleanup_chunk") /\ folder_call.lock = "free"
    /\ folder_call' = [folder_call EXCEPT
                         !.pc = "await_rmtree", !.lock = "task",
                         !.rmtree["task"] = [IdleThread EXCEPT !.state = "running",
                                                               !.chunk = folder_call.chunk]]
    /\ UNCHANGED <<disk, active_downloads, progress_messages, chunk_managers, download_requests>>
    /\ FolderUnchanged

\* What shutil.rmtree leaves: nothing of its target, unless a write raced
\* with it; then it removes everything as well, or raises OSError (the
\* directory is not empty) with the archive left.
W_Rmtree(o) ==
    /\ folder_call.rmtree[o].state = "running"
    /\ \E removed \in BOOLEAN :
         /\ ~ removed => folder_call.rmtree[o].raced
         /\ disk' = IF o = "task"
                    THEN [disk EXCEPT ![1] = {a \in @ : a.chunk # folder_call.rmtree[o].chunk
                                                          \/ a.kind \in {"zip", "parts"}}]
                    ELSE IF removed THEN cleanup_all(disk, 1)
                    ELSE [disk EXCEPT ![1] = {a \in @ : a.kind = "zip"}]
         /\ folder_call' = [folder_call EXCEPT
                              !.rmtree[o].state = IF removed \/ o = "task" THEN "done" ELSE "OSError"]
    /\ UNCHANGED <<active_downloads, progress_messages, chunk_managers, download_requests>>
    /\ FolderUnchanged

\* The rest of cleanup_chunk: the archive and the part files are removed,
\* the lock is released; the next chunk.
D_CleanupChunkDone ==
    /\ FolderRunning("await_rmtree") /\ folder_call.rmtree["task"].state = "done"
    /\ disk' = cleanup_chunk(disk, 1, folder_call.chunk)
    /\ folder_call' = [folder_call EXCEPT !.pc = "next", !.lock = "free",
                                          !.rmtree["task"] = IdleThread]
    /\ UNCHANGED <<active_downloads, progress_messages, chunk_managers, download_requests>>
    /\ FolderUnchanged

\* The end of the chunk loop body.
D_NextChunk ==
    /\ FolderRunning("next")
    /\ download_requests' = IF MoreChunks(folder_call.chunk, Len(FolderPlan))
                            THEN SetStatus(download_requests, 1, "downloading")
                            ELSE download_requests
    /\ folder_call' = [folder_call EXCEPT !.pc = "chunk_path", !.chunk = @ + 1]
    /\ UNCHANGED <<disk, active_downloads, progress_messages, chunk_managers>>
    /\ FolderUnchanged

\* After the loop: COMPLETED is written and cleanup_all hands
\* shutil.rmtree(request_folder) to the executor, under self._lock.
D_Complete ==
    /\ FolderRunning("chunk_path") /\ folder_call.chunk = Len(FolderPlan)
    /\ folder_call.lock = "free"
    /\ download_requests' = SetStatus(download_requests, 1, "completed")
    /\ folder_call' =
         IF FolderExists
         THEN [folder_call EXCEPT !.pc = "await_cleanup_all", !.lock = "task",
                                  !.rmtree["task"] = [IdleThread EXCEPT !.state = "running",
                                                                        !.chunk = Len(FolderPlan)]]
         ELSE [folder_call EXCEPT !.pc = "finally"]
    /\ UNCHANGED <<disk, active_downloads, progress_messages, chunk_managers>>
    /\ FolderUnchanged

\* cleanup_all of the task returns.
D_CleanupAllDone ==
    /\ FolderRunning("await_cleanup_all") /\ folder_call.rmtree["task"].state = "done"
    /\ disk' = cleanup_all(disk, 1)
    /\ folder_call' = [folder_call EXCEPT !.pc = "finally", !.lock = "free",
                                          !.rmtree["task"] = IdleThread]
    /\ UNCHANGED <<active_downloads, progress_messages, chunk_managers, download_requests>>
    /\ FolderUnchanged

\* get_download_stats and the completion message, then the finally block.
D_Finally ==
    /\ FolderRunning("finally")
    /\ Forget(1)
    /\ folder_call' = [folder_call EXCEPT !.pc = "ended"]
    /\ UNCHANGED <<disk, download_requests>>
    /\ FolderUnchanged

\* cmd_cancel, bot.py:386-388: the task is cancelled and its key deleted;
\* the handler then awaits update_request.
C_Begin ==
    /\ folder_call.cmd = "idle"
    /\ IF 1 \in active_downloads
       THEN /\ folder_call' = [folder_call EXCEPT !.cmd = "update_request",
                                                  !.cancelling = folder_call.pc # "ended"]
            /\ active_downloads' = active_downloads \ {1}
       ELSE /\ folder_call' = [folder_call EXCEPT !.cmd = "update_request"]
            /\ UNCHANGED active_downloads
    /\ UNCHANGED <<disk, progress_messages, chunk_managers, download_requests>>
    /\ FolderUnchanged

\* The CancelledError is raised in the task at its await: an "async with
\* self._lock" it is in releases the lock, "except asyncio.CancelledError"
\* is entered and awaits update_request. The function the task had handed
\* to a thread goes on.
D_Cancelled ==
    /\ folder_call.cancelling
    /\ folder_call' = [folder_call EXCEPT
                         !.cancelling = FALSE, !.pc = "handler",
                         !.lock = IF @ = "task" THEN "free" ELSE @]
    /\ UNCHANGED <<disk, active_downloads, progress_messages, chunk_managers, download_requests>>
    /\ FolderUnchanged

\* update_request of cmd_cancel returns (the task was woken with its
\* CancelledError while the handler waited); without another await the
\* handler tests chunk_managers and enters cleanup_all, which takes the lock
\* and hands shutil.rmtree(request_folder) to the executor if the folder
\* exists.
C_UpdateRequest ==
    /\ folder_call.cmd = "update_request" /\ ~ folder_call.cancelling
    /\ download_requests' = SetFailed(download_requests, 1, "Cancelled by user")
    /\ IF 1 \in chunk_managers /\ FolderExists
       THEN /\ folder_call.lock = "free"
            /\ folder_call' = [folder_call EXCEPT
                                 !.cmd = "cleanup_all", !.lock = "cancel",
                                 !.rmtree["cancel"] = [IdleThread EXCEPT !.state = "running"]]
            /\ UNCHANGED chunk_managers
       ELSE /\ folder_call' = [folder_call EXCEPT !.cmd = "done",
                                                  !.cleaned = 1 \in chunk_managers]
            /\ chunk_managers' = chunk_managers \ {1}
    /\ UNCHANGED <<disk, active_downloads, progress_messages>>
    /\ FolderUnchanged

\* del self.chunk_managers[request_id]
DeleteKey(keys, k) == IF k \in keys THEN "none" ELSE "KeyError"

\* The await of cleanup_all ends in cmd_cancel: the lock is released; if
\* rmtree raised, the error leaves the handler; otherwise
\* "del self.chunk_managers[request_id]", then the reply.
C_CleanupReturned ==
    /\ folder_call.cmd = "cleanup_all"
    /\ folder_call.rmtree["cancel"].state \in {"done", "OSError"}
    /\ LET failed == folder_call.rmtree["cancel"].state = "OSError"
       IN  /\ folder_call' = [folder_call EXCEPT
                                !.cmd = "done", !.lock = "free",
                                !.cleaned = ~ failed,
                                !.raised = IF failed THEN "OSError"
                                           ELSE DeleteKey(chunk_managers, 1),
                                !.rmtree["cancel"] = IdleThread]
           /\ chunk_managers' = IF failed THEN chunk_managers ELSE chunk_managers \ {1}
    /\ UNCHANGED <<disk, active_downloads, progress_messages, download_requests>>
    /\ FolderUnchanged

\* update_request of "except asyncio.CancelledError" returns (it waited for
\* the store's lock behind the one of cmd_cancel), the error is raised again
\* and the finally block runs.
D_HandlerWrite ==
    /\ folder_call.pc = "handler" /\ folder_call.cmd # "update_request"
    /\ download_requests' = OnCancelled(download_requests, 1)
    /\ Forget(1)
    /\ folder_call' = [folder_call EXCEPT !.pc = "ended"]
    /\ UNCHANGED disk
    /\ FolderUnchanged

FolderNext ==
    \/ D_ChunkPath
    \/ D_DownloadStart
    \/ W_Download
    \/ D_DownloadDone
    \/ D_ZipStart
    \/ W_ZipOpen
    \/ W_ZipWrite
    \/ W_ZipClose
    \/ D_Upload
    \/ D_CleanupChunk
    \/ \E o \in {"task", "cancel"} : W_Rmtree(o)
    \/ D_CleanupChunkDone
    \/ D_NextChunk
    \/ D_Complete
    \/ D_CleanupAllDone
    \/ D_Finally
    \/ C_Begin
    \/ D_Cancelled
    \/ C_UpdateRequest
    \/ C_CleanupReturned
    \/ D_HandlerWrite

SpecFolder == FolderInit /\ [][FolderNext]_vars

\* cleanup_chunk or cleanup_all is deleting: its rmtree is under way.
Deleting == \E o \in {"task", "cancel"} : folder_call.rmtree[o].state = "running"

\* The step writes into the folder of the request: an entry is created in
\* it, or create_zip writes a file into the archive that lies in it.
FolderWrite ==
    \/ disk'[1] \ disk[1] # {}
    \/ /\ folder_call'.zip.written # folder_call.zip.written
       /\ ZipLinked

\* cleanup_all, called by cmd_cancel, has returned.
CancelCleaned == folder_call.cmd = "done" /\ folder_call.cleaned

\* After the cleanup_all of a cancel has returned nothing is written into
\* the folder of the request, whatever ran on a thread at the cancel.
NoWriteAfterCancelCleanup == [][CancelCleaned => ~ FolderWrite]_vars

\* C33: no step of a download or of create_zip writes into the folder of
\* the request while cleanup_chunk or cleanup_all is deleting it, and none
\* writes into it after the cleanup_all of a cancel has returned.
C33_CleanupNeverRacesWrite == [][(Deleting \/ CancelCleaned) => ~ FolderWrite]_vars

\* C40: cmd_cancel of a request with a running task runs to its end without
\* raising, however its steps (cancel, the store write, cleanup_all, the
\* removal from chunk_managers) interleave with the handler and the finally
\* block of the cancelled task.
C40_CancelNeverRaises == folder_call.raised = "none"

\* ----------------------------------------- an error that ends a request
\* The task of r is in "except Exception as e": an error other than a
\* per-file download error has left the try block.
InErrorHandler(r) == task[r].pc \in {"except", "notice"}

\* The step ends the task of r from "except Exception as e" with no
\* cancellation and no stop of the process.
EndsByError(r) ==
    InErrorHandler(r) /\ ~ task[r].cancelling /\ task'[r].pc = "none" /\ proc' # "down"

\* The store holds FAILED and an error text for r.
FailureRecorded(reqs, r) == reqs[r].status = "failed" /\ reqs[r].error_message # ""

\* The failure notice is sent only with FAILED and the error text in the
\* store, and the step that ends the task removes the request from
\* active_downloads, progress_messages and chunk_managers.
NoticeAfterWriteThenForgotten ==
    /\ [](\A r \in 1..MaxRequests : task[r].pc = "notice" => FailureRecorded(download_requests, r))
    /\ [][\A r \in 1..MaxRequests :
             /\ task'[r].notified => FailureRecorded(download_requests', r)
             /\ (InErrorHandler(r) /\ task'[r].pc = "none" /\ proc' # "down")
                   => /\ r \notin active_downloads'
                      /\ r \notin progress_messages'
                      /\ r \notin chunk_managers']_vars

\* C34: when an error other than a per-file download error ends a request
\* (the archive, the folder lookup or the store fails), FAILED and a
\* non-empty error text are in the store before the failure notice is sent,
\* and the request is then removed from active_downloads, progress_messages
\* and chunk_managers.
C34_FailureRecordedBeforeNotice ==
    /\ NoticeAfterWriteThenForgotten
    /\ [][\A r \in 1..MaxRequests :
             EndsByError(r) => FailureRecorded(download_requests', r) /\ task'[r].notified]_vars

\* ------------------------------------------------- COMPLETED is terminal
\* The step leaves the status and the error text of request r as they are.
StatusKept(r) ==
    /\ download_requests'[r].status = download_requests[r].status
    /\ download_requests'[r].error_message = download_requests[r].error_message

\* C35: once the persisted status of a request is COMPLETED no later
\* operation, a cancel command for its id, a restart, a late step of its
\* task, changes its status or its error text.
C35_CompletedIsTerminal ==
    [][\A r \in 1..Len(download_requests) :
          download_requests[r].status = "completed" => StatusKept(r)]_vars

\* A start of the process leaves a COMPLETED request as it is and starts no
\* task for it.
CompletedNotRestarted ==
    [][\A r \in 1..Len(download_requests) :
          (download_requests[r].status = "completed" /\ proc = "down" /\ proc' = "up")
              => StatusKept(r) /\ task'[r].pc = "none"]_vars

\* --------------------------------------------- chunks across a restart
\* The store holds the row of chunk i of request r with that status.
ChunkHasStatus(table, r, i, status) == \E c \in ChunkRows(table, r, i) : c.status = status

\* The step is one of the task of r working on the chunk it is at: the
\* chunk is started, a file of it is fetched or marked, it is archived, the
\* archive is delivered.
WorksOnChunk(r) ==
    /\ task[r].pc \in {"chunk", "download", "mark", "set_uploading", "upload"}
    /\ task'[r].pc \in {"download", "mark", "set_uploading", "upload", "after_upload"}
    /\ task'[r] # task[r]

\* C36: a chunk whose store status is 'completed', its archive delivered,
\* is not downloaded, archived or delivered again, so no archive is
\* delivered twice, also after a crash and a resume.
C36_CompletedChunkNotRedone ==
    [][\A r \in 1..MaxRequests :
          WorksOnChunk(r) => ~ ChunkHasStatus(chunks_table, r, task[r].chunk_idx, "completed")]_vars

\* Within one run of the process no completed chunk is worked on again.
CompletedChunkNotRedoneInOneRun ==
    [][\A r \in 1..MaxRequests :
          (WorksOnChunk(r) /\ ~ task[r].resume)
              => ~ ChunkHasStatus(chunks_table, r, task[r].chunk_idx, "completed")]_vars

\* pending -> zipped -> completed
StatusRank(status) == IF status = "pending" THEN 0 ELSE IF status = "zipped" THEN 1 ELSE 2

\* C37: the store status of a chunk only moves forward along pending ->
\* zipped -> completed; a row that is 'completed' is never set back, also
\* when the request is planned and processed again after a resume.
C37_ChunkStatusForward ==
    [][\A c \in chunks_table :
          \E d \in ChunkRows(chunks_table', c.request_id, c.chunk_number) :
              StatusRank(d.status) >= StatusRank(c.status)]_vars

\* The same within one run of the process.
ChunkStatusForwardInOneRun ==
    [][\A c \in chunks_table :
          (c.request_id \in 1..MaxRequests /\ ~ task[c.request_id].resume)
              => \E d \in ChunkRows(chunks_table', c.request_id, c.chunk_number) :
                    StatusRank(d.status) >= StatusRank(c.status)]_vars

\* Every FileEntry of request r assigned to chunk i is completed.
FilesOfChunkCompleted(r, i) ==
    \A k \in RowsOf(r) : file_progress[k].chunk_number = i => file_progress[k].status = "completed"

\* C38: when the store status of a chunk is 'completed' every FileEntry
\* assigned to it is 'completed', and when a request is COMPLETED every
\* chunk of its plan is 'completed'.
C38_CompletedMeansAllDone ==
    /\ \A c \in chunks_table : c.status = "completed" => FilesOfChunkCompleted(c.request_id, c.chunk_number)
    /\ \A r \in 1..Len(download_requests) :
          download_requests[r].status = "completed"
              => \A i \in 0..(Len(FolderPlan) - 1) : ChunkHasStatus(chunks_table, r, i, "completed")

\* The step is a start of the process.
Starts == proc = "down" /\ proc' = "up"

\* C39: a request whose persisted status is UPLOADING when the process
\* stops is given a task at the next start, so that it goes on to COMPLETED
\* or FAILED.
C39_UploadingRestarted ==
    [][Starts => \A r \in 1..Len(download_requests) :
                    download_requests[r].status = "uploading"
                        => r \in active_downloads' /\ task'[r].pc = "created"]_vars

\* The requests the start does give a task: those persisted as pending or
\* downloading.
PendingAndDownloadingRestarted ==
    [][Starts => \A r \in 1..Len(download_requests) :
                    download_requests[r].status \in {"pending", "downloading"}
                        => r \in active_downloads' /\ task'[r].pc = "created"]_vars

\* No step creates a task for a request persisted as UPLOADING: once the
\* process has started without it, the request stays as it is.
UploadingNeverRuns ==
    [][\A r \in 1..Len(download_requests) :
          (task[r].pc = "none" /\ task'[r].pc = "created")
              => download_requests[r].status \in {"pending", "downloading"}]_vars

====
